---- MODULE Spec2Model ----
(***************************************************************************)
(* Model of aws_diagram_generator: the multi-target orchestration of       *)
(* core.py (process_target, process_targets_parallel) and the scanner tool *)
(* of tools/aws_inspector_tools.py (tag listing, configuration hydration). *)
(*                                                                         *)
(* The specifications share the variables:                                 *)
(*   Spec         process_targets_parallel over a pool of worker threads;  *)
(*                each worker runs process_target, whose crew invokes the  *)
(*                scanner tool (_run -> _scan_by_tags_globally).           *)
(*   SpecHydrate  one call of _batch_hydrate_configurations, batch by      *)
(*                batch and resource by resource, against a backend whose  *)
(*                every call may succeed or fail.                          *)
(*   SpecHydrateColon  the same call on identifiers of the form kind:name. *)
(*   SpecScan     one call of _scan_by_tags_globally: the listing page by  *)
(*                page, then hydration; or hydration called on its own.    *)
(*   SpecClassify one call of _extract_resource_type_from_arn.             *)
(*   SpecValidate load_config / create_target_from_cli of config.py on a   *)
(*                configuration file or on command-line arguments.         *)
(*   SpecMain     main of cli.py: the dispatch of the targets, a           *)
(*                KeyboardInterrupt in the calling thread, the exit code.  *)
(*   SpecRescan   _scan_by_tags_globally called twice on one backend.      *)
(*   SpecHydrateFair  SpecHydrate with weak fairness of the call's steps.  *)
(*   SpecRun      one call of the tool's entry point _run.                 *)
(***************************************************************************)
EXTENDS Integers, Sequences, FiniteSets, TLC

VARIABLES
    \* ---- orchestration (core.py) ----
    targets,          \* the list handed to process_targets_parallel
    max_workers,      \* its max_workers argument
    main_pc,          \* position of the calling thread
    submitted,        \* number of executor.submit calls made so far
    pc,               \* position of each target's work item / worker thread
    DEFAULT_SESSION,  \* boto3's module-level default session (its region)
    tagging_client,   \* local of _scan_by_tags_globally, per running scan
    config_client,    \* local of _scan_by_tags_globally, per running scan
    scan_result,      \* what the scanner tool returned to the crew, per target
    raised,           \* message of the exception raised inside process_target
    future,           \* the value each future holds once its work item is done
    results,          \* the list process_targets_parallel builds
    \* ---- hydration (tools/aws_inspector_tools.py) ----
    resources,          \* the list handed to _batch_hydrate_configurations
    resources_by_type,  \* its dictionary type -> resources, in insertion order
    hpc,                \* position inside _batch_hydrate_configurations
    gi,                 \* index of the (resource_type, type_resources) item being processed
    bi,                 \* loop variable i of "for i in range(0, len, batch_size)"
    k,                  \* position of the per-resource loop inside the batch
    configs_by_id,      \* the dictionary built from a successful batch response
    batch_calls,        \* number of batch_get_resource_config calls issued
    batch_outcome,      \* per resource: how the batch call that covered it ended
    query_log,          \* per resource: outcomes of its select_resource_config calls
    sleeps,             \* number of sleep(0.1) calls made
    batch_log,          \* the batch_get_resource_config calls issued, in order
    fetches,            \* per resource: number of _fetch_config_by_query invocations
    slices,             \* the batches handed to _process_resource_batch, in order
    \* ---- tag listing (_scan_by_tags_globally) ----
    tagged,             \* what the tagging service holds for the tag filters
    pagination_token,   \* the service's cursor: how many of them it has served
    pages,              \* sizes of the pages the paginator has yielded
    spc,                \* position inside _scan_by_tags_globally
    scan_return,        \* the list _scan_by_tags_globally returned
    listing_error,      \* the exception the paginator raised, if any
    \* ---- classification of one identifier ----
    classify_arn,       \* the argument of _extract_resource_type_from_arn
    cpc,                \* position of that call
    classified,         \* the value it returned
    \* ---- configuration validation (config.py) ----
    config_targets,     \* the 'targets' list of the configuration being validated
    vpc,                \* position of the validation
    validated,          \* what validate_config / validate_target returned
    \* ---- command-line entry point (cli.py) ----
    executor,           \* whether main's call built a ThreadPoolExecutor
    interrupted,        \* a KeyboardInterrupt was raised in the calling thread
    exit_code,          \* what main returned
    \* ---- a scan repeated against the same backend ----
    scan_no,            \* which call of _scan_by_tags_globally is running
    first_scan,         \* what the first call returned and what the backend answered
    \* ---- the scanner tool's entry point (_run) ----
    target_config,      \* the tool's target_config field
    rpc,                \* position inside _run
    run_exception,      \* the exception that reached _run's handler, if any
    run_return,         \* the JSON text _run returned
    \* ---- save_output (core.py) ----
    file_written        \* per target: whether its output file was written

orchVars == <<targets, max_workers, main_pc, submitted, pc, DEFAULT_SESSION,
              tagging_client, config_client, scan_result, raised, future, results>>

hydVars == <<resources, resources_by_type, hpc, gi, bi, k, configs_by_id,
             batch_calls, batch_outcome, query_log, sleeps, batch_log, fetches,
             slices>>

listVars == <<tagged, pagination_token, pages, spc, scan_return, listing_error>>

classVars == <<classify_arn, cpc, classified>>

cfgVars == <<config_targets, vpc, validated>>

mainVars == <<executor, interrupted, exit_code>>

rescanVars == <<scan_no, first_scan>>

runVars == <<target_config, rpc, run_exception, run_return>>

saveVars == <<file_written>>

vars == <<orchVars, hydVars, listVars, classVars, cfgVars, mainVars, rescanVars, runVars, saveVars>>

(***************************************************************************)
(* Bounds of the model.                                                    *)
(***************************************************************************)
MaxTargets == 2
MaxWorkersArg == 2

Regions == {"us-east-1", "eu-west-1"}
ErrorMessages == {"Bedrock invocation failed", "crew construction failed"}

NoSession == "no-session"
NoClient == "no-client"
NoError == "no-error"
NoFuture == [status |-> "pending"]

TargetIds == 1..Len(targets)

(***************************************************************************)
(* Outcome dictionaries of process_target.                                 *)
(***************************************************************************)
\* A faulty variant of SuccessOutcome: the crew's result is not passed on.
SuccessOutcomeNoResult(target_name) ==
    [target |-> target_name, result |-> "None", status |-> "success",
     output_file |-> "architecture_documentation.md", error |-> "absent"]

SuccessOutcome(target_name) ==
    [target |-> target_name, result |-> "CrewOutput", status |-> "success",
     output_file |-> "architecture_documentation.md", error |-> "absent"]

\* A faulty variant of FailedOutcome: the exception's message is lost.
FailedOutcomeNoMessage(target_name, e) ==
    [target |-> target_name, result |-> "None", status |-> "failed",
     output_file |-> "absent", error |-> "Unknown error"]

FailedOutcome(target_name, e) ==
    [target |-> target_name, result |-> "None", status |-> "failed",
     output_file |-> "absent", error |-> e]

(***************************************************************************)
(* The worker pool: ThreadPoolExecutor(max_workers=max_workers).           *)
(***************************************************************************)
Running == {t \in TargetIds : pc[t] \in {"started", "session", "tagging", "clients", "scanned"}}

\* A faulty variant of WorkerAvailable: one thread per submitted work item.
WorkerAvailableUnbounded == TRUE

WorkerAvailable == Cardinality(Running) < max_workers

\* No hydration is in progress (the state of the hydration variables
\* throughout Spec, where a scan is one step of its worker).
HydrateIdle ==
    /\ resources = <<>>
    /\ resources_by_type = <<>>
    /\ hpc = "idle"
    /\ gi = 0
    /\ bi = 0
    /\ k = 0
    /\ configs_by_id = <<>>
    /\ batch_calls = 0
    /\ batch_outcome = <<>>
    /\ query_log = <<>>
    /\ sleeps = 0
    /\ batch_log = <<>>
    /\ slices = <<>>
    /\ fetches = <<>>

\* No scan is being followed page by page, and no identifier is being
\* classified on its own.
NotReturned == [kind |-> "not-returned"]

ListIdle ==
    /\ tagged = <<>>
    /\ pagination_token = 0
    /\ pages = <<>>
    /\ spc = "idle"
    /\ scan_return = NotReturned
    /\ listing_error = NoError

ClassifyIdle ==
    /\ classify_arn = <<>>
    /\ cpc = "idle"
    /\ classified = <<>>

ValidateIdle ==
    /\ config_targets = <<>>
    /\ vpc = "idle"
    /\ validated = "idle"

NoExecutor == "no-executor"
NoExit == "running"

MainIdle ==
    /\ executor = NoExecutor
    /\ interrupted = FALSE
    /\ exit_code = NoExit

NoScan == [kind |-> "no-scan"]

RescanIdle ==
    /\ scan_no = 1
    /\ first_scan = NoScan

RunIdle ==
    /\ target_config = [kind |-> "none"]
    /\ rpc = "idle"
    /\ run_exception = NoError
    /\ run_return = NotReturned

Init ==
    /\ \E n \in 1..MaxTargets :
         \E region \in [1..n -> Regions] :
           targets = [t \in 1..n |-> [name |-> t, region |-> region[t]]]
    /\ max_workers \in 1..MaxWorkersArg
    /\ main_pc = "submit"
    /\ submitted = 0
    /\ pc = [t \in TargetIds |-> "queued"]
    /\ DEFAULT_SESSION = NoSession
    /\ tagging_client = [t \in TargetIds |-> NoClient]
    /\ config_client = [t \in TargetIds |-> NoClient]
    /\ scan_result = [t \in TargetIds |-> "none"]
    /\ raised = [t \in TargetIds |-> NoError]
    /\ future = [t \in TargetIds |-> NoFuture]
    /\ results = <<>>
    /\ file_written = [t \in TargetIds |-> "not-attempted"]
    /\ HydrateIdle
    /\ ListIdle
    /\ ClassifyIdle
    /\ ValidateIdle
    /\ MainIdle
    /\ RescanIdle
    /\ RunIdle

(***************************************************************************)
(* process_targets_parallel, the calling thread.                           *)
(***************************************************************************)
\* executor.submit(process_target, target, llm, output_dir), one per target,
\* in list order; the as_completed loop starts after the last one.
Submit ==
    /\ main_pc = "submit"
    /\ submitted' = submitted + 1
    /\ main_pc' = IF submitted + 1 = Len(targets) THEN "collect" ELSE "submit"
    /\ UNCHANGED <<targets, max_workers, pc, DEFAULT_SESSION, tagging_client,
                   config_client, scan_result, raised, future, results>>
    /\ UNCHANGED <<hydVars, listVars, classVars, cfgVars, mainVars, rescanVars, runVars, saveVars>>

\* A faulty variant of Collect: the outcome of a failed target is not appended.
CollectDropFailed(t) ==
    /\ main_pc = "collect"
    /\ pc[t] = "finished"
    /\ pc' = [pc EXCEPT ![t] = "collected"]
    /\ results' = IF future[t].status = "failed" THEN results
                  ELSE Append(results, future[t])
    /\ UNCHANGED <<targets, max_workers, main_pc, submitted, DEFAULT_SESSION,
                   tagging_client, config_client, scan_result, raised, future>>
    /\ UNCHANGED <<hydVars, listVars, classVars, cfgVars, mainVars, rescanVars, runVars, saveVars>>

\* One iteration of "for future in as_completed(future_to_target)":
\* result = future.result(); results.append(result). process_target turns
\* every Exception of its try block into a failed dictionary, so the future
\* of a validated target (a dictionary with 'tags') holds a result and the
\* except clause of lines 408-415 is not entered.
Collect(t) ==
    /\ main_pc = "collect"
    /\ pc[t] = "finished"
    /\ pc' = [pc EXCEPT ![t] = "collected"]
    /\ results' = Append(results, future[t])
    /\ UNCHANGED <<targets, max_workers, main_pc, submitted, DEFAULT_SESSION,
                   tagging_client, config_client, scan_result, raised, future>>
    /\ UNCHANGED <<hydVars, listVars, classVars, cfgVars, mainVars, rescanVars, runVars, saveVars>>

\* as_completed is exhausted, the with-block shuts the executor down,
\* return results.
ReturnResults ==
    /\ main_pc = "collect"
    /\ \A t \in TargetIds : pc[t] = "collected"
    /\ main_pc' = "done"
    /\ UNCHANGED <<targets, max_workers, submitted, pc, DEFAULT_SESSION,
                   tagging_client, config_client, scan_result, raised, future, results>>
    /\ UNCHANGED <<hydVars, listVars, classVars, cfgVars, mainVars, rescanVars, runVars, saveVars>>

(***************************************************************************)
(* process_target, run by a worker thread of the pool.                     *)
(***************************************************************************)
\* A worker thread takes the next work item from the executor's FIFO queue
\* and enters process_target (tool, agents, tasks and crew are constructed).
Start(t) ==
    /\ pc[t] = "queued"
    /\ t <= submitted
    /\ \A u \in TargetIds : u < t => pc[u] # "queued"
    /\ WorkerAvailable
    /\ pc' = [pc EXCEPT ![t] = "started"]
    /\ UNCHANGED <<targets, max_workers, main_pc, submitted, DEFAULT_SESSION,
                   tagging_client, config_client, scan_result, raised, future, results>>
    /\ UNCHANGED <<hydVars, listVars, classVars, cfgVars, mainVars, rescanVars, runVars, saveVars>>

\* boto3.setup_default_session(region_name=aws_region): the scanner tool,
\* invoked by the crew's inspector, replaces the process-wide default session.
SetupDefaultSession(t) ==
    /\ pc[t] = "started"
    /\ DEFAULT_SESSION' = targets[t].region
    /\ pc' = [pc EXCEPT ![t] = "session"]
    /\ UNCHANGED <<targets, max_workers, main_pc, submitted, tagging_client,
                   config_client, scan_result, raised, future, results>>
    /\ UNCHANGED <<hydVars, listVars, classVars, cfgVars, mainVars, rescanVars, runVars, saveVars>>

\* tagging_client = boto3.client('resourcegroupstaggingapi'): a client of
\* whatever default session is installed at this moment.
CreateTaggingClient(t) ==
    /\ pc[t] = "session"
    /\ tagging_client' = [tagging_client EXCEPT ![t] = DEFAULT_SESSION]
    /\ pc' = [pc EXCEPT ![t] = "tagging"]
    /\ UNCHANGED <<targets, max_workers, main_pc, submitted, DEFAULT_SESSION,
                   config_client, scan_result, raised, future, results>>
    /\ UNCHANGED <<hydVars, listVars, classVars, cfgVars, mainVars, rescanVars, runVars, saveVars>>

\* config_client = boto3.client('config').
CreateConfigClient(t) ==
    /\ pc[t] = "tagging"
    /\ config_client' = [config_client EXCEPT ![t] = DEFAULT_SESSION]
    /\ pc' = [pc EXCEPT ![t] = "clients"]
    /\ UNCHANGED <<targets, max_workers, main_pc, submitted, DEFAULT_SESSION,
                   tagging_client, scan_result, raised, future, results>>
    /\ UNCHANGED <<hydVars, listVars, classVars, cfgVars, mainVars, rescanVars, runVars, saveVars>>

\* The rest of _scan_by_tags_globally and of _run: the paginated listing
\* either fails (the tool returns a list holding one error object), finds
\* nothing (an empty list) or is hydrated into an inventory. _run returns the
\* JSON text to the crew in every case; the clients are locals and die here.
ScanByTags(t, listing) ==
    /\ pc[t] = "clients"
    /\ scan_result' = [scan_result EXCEPT ![t] = listing]
    /\ tagging_client' = [tagging_client EXCEPT ![t] = NoClient]
    /\ config_client' = [config_client EXCEPT ![t] = NoClient]
    /\ pc' = [pc EXCEPT ![t] = "scanned"]
    /\ UNCHANGED <<targets, max_workers, main_pc, submitted, DEFAULT_SESSION,
                   raised, future, results>>
    /\ UNCHANGED <<hydVars, listVars, classVars, cfgVars, mainVars, rescanVars, runVars, saveVars>>

\* What save_output leaves behind: the file, or nothing when creating the
\* directory or writing raised (the handler of lines 43-44 only logs).
SaveOutput(saved) == IF saved THEN "written" ELSE "failed"

\* A faulty variant of KickoffReturn: save_output has no handler, its error
\* reaches the handler of process_target.
KickoffReturnSaveErrorEscapes(t, saved) ==
    /\ pc[t] = "scanned"
    /\ file_written' = [file_written EXCEPT ![t] = SaveOutput(saved)]
    /\ future' = [future EXCEPT ![t] =
                    IF saved THEN SuccessOutcome(targets[t].name)
                    ELSE FailedOutcome(targets[t].name, "Permission denied")]
    /\ pc' = [pc EXCEPT ![t] = "finished"]
    /\ UNCHANGED <<targets, max_workers, main_pc, submitted, DEFAULT_SESSION,
                   tagging_client, config_client, scan_result, raised, results>>
    /\ UNCHANGED <<hydVars, listVars, classVars, cfgVars, mainVars, rescanVars, runVars>>

\* crew.kickoff() returns, save_output is called and writes the file or
\* fails (it absorbs its own errors), process_target returns the success
\* dictionary.
KickoffReturn(t, saved) ==
    /\ pc[t] = "scanned"
    /\ file_written' = [file_written EXCEPT ![t] = SaveOutput(saved)]
    /\ future' = [future EXCEPT ![t] = SuccessOutcome(targets[t].name)]
    /\ pc' = [pc EXCEPT ![t] = "finished"]
    /\ UNCHANGED <<targets, max_workers, main_pc, submitted, DEFAULT_SESSION,
                   tagging_client, config_client, scan_result, raised, results>>
    /\ UNCHANGED <<hydVars, listVars, classVars, cfgVars, mainVars, rescanVars, runVars>>

\* An exception inside the try block of process_target (constructing the
\* crew before the scan, or a model call after it): "except Exception as e"
\* returns the failed dictionary with str(e).
ProcessTargetRaise(t, e) ==
    /\ pc[t] \in {"started", "scanned"}
    /\ raised' = [raised EXCEPT ![t] = e]
    /\ future' = [future EXCEPT ![t] = FailedOutcome(targets[t].name, e)]
    /\ pc' = [pc EXCEPT ![t] = "finished"]
    /\ UNCHANGED <<targets, max_workers, main_pc, submitted, DEFAULT_SESSION,
                   tagging_client, config_client, scan_result, results>>
    /\ UNCHANGED <<hydVars, listVars, classVars, cfgVars, mainVars, rescanVars, runVars, saveVars>>

ListingOutcomes == {"error", "inventory"}

Next ==
    \/ Submit
    \/ \E t \in TargetIds : Start(t)
    \/ \E t \in TargetIds : SetupDefaultSession(t)
    \/ \E t \in TargetIds : CreateTaggingClient(t)
    \/ \E t \in TargetIds : CreateConfigClient(t)
    \/ \E t \in TargetIds : \E listing \in ListingOutcomes : ScanByTags(t, listing)
    \/ \E t \in TargetIds : \E saved \in BOOLEAN : KickoffReturn(t, saved)
    \/ \E t \in TargetIds : \E e \in ErrorMessages : ProcessTargetRaise(t, e)
    \/ \E t \in TargetIds : Collect(t)
    \/ ReturnResults

Spec == Init /\ [][Next]_vars

(***************************************************************************)
(* Properties of the orchestration, checked under Spec.                    *)
(***************************************************************************)
OutcomesOf(t) == {i \in 1..Len(results) : results[i].target = targets[t].name}

\* C1: when process_targets_parallel returns, the results hold exactly one
\* outcome per input target: as many outcomes as targets, none dropped and
\* none reported twice, whatever the order in which the workers finished.
C1_OneOutcomePerTarget ==
    main_pc = "done" =>
        /\ Len(results) = Len(targets)
        /\ \A t \in TargetIds : Cardinality(OutcomesOf(t)) = 1

\* A run of two or more targets has returned, the first outcome collected
\* being that of a target other than the first one submitted.
C1_Witness ==
    /\ main_pc = "done"
    /\ Len(targets) >= 2
    /\ results[1].target # targets[1].name

\* C2: a target whose processing raised ends Failed with the message of its
\* own exception as error string, and every target whose processing did not
\* raise ends Success, whatever happened to its siblings.
C2_FailureIsolated ==
    main_pc = "done" =>
        \A t \in TargetIds :
            \E i \in OutcomesOf(t) :
                IF raised[t] # NoError
                THEN results[i].status = "failed" /\ results[i].error = raised[t]
                ELSE results[i].status = "success" /\ results[i].error = "absent"

\* A finished run in which one target raised and a sibling did not.
C2_Witness ==
    /\ main_pc = "done"
    /\ \E t, u \in TargetIds : raised[t] # NoError /\ raised[u] = NoError

\* C3 (as claimed): a target whose discovery failed ends Failed and a target
\* whose discovery succeeded ends Success.
C3_DiscoveryDecidesStatus ==
    main_pc = "done" =>
        \A t \in TargetIds : \A i \in OutcomesOf(t) :
            /\ scan_result[t] = "error" => results[i].status = "failed"
            /\ scan_result[t] = "inventory" => results[i].status = "success"

\* C4: at no time do more than max_workers targets execute; a queued target
\* can only start when fewer than max_workers are executing.
C4_BoundedParallelism == Cardinality(Running) <= max_workers

\* The pool is saturated while a submitted target still waits in the queue.
C4_Witness ==
    /\ Cardinality(Running) = max_workers
    /\ \E t \in TargetIds : pc[t] = "queued" /\ t <= submitted

\* C5 (as claimed): the clients a scan holds are clients of its own
\* target's region.
C5_ClientsInOwnRegion ==
    \A t \in TargetIds :
        /\ tagging_client[t] \in {NoClient, targets[t].region}
        /\ config_client[t] \in {NoClient, targets[t].region}

(***************************************************************************)
(* The scanner tool: identifiers.                                          *)
(*                                                                         *)
(* A Python string is modelled by what the code does with it: an ARN is    *)
(* the sequence of its ':'-separated fields (arn.split(':')), and a field  *)
(* the sequence of its '/'-separated segments, so 'instance/i-1' is        *)
(* <<"instance", "i-1">>, 'b1' is <<"b1">> and the empty string is <<"">>. *)
(***************************************************************************)
None == <<>>
EmptyString == <<"">>

ArnOf(service, tail) ==
    <<(<<"arn">>), (<<"aws">>), service, (<<"us-east-1">>), (<<"111122223333">>)>> \o tail

ArnInstance1 == ArnOf(<<"ec2">>, <<(<<"instance", "i-1">>)>>)
ArnInstance2 == ArnOf(<<"ec2">>, <<(<<"instance", "i-2">>)>>)
ArnInstance3 == ArnOf(<<"ec2">>, <<(<<"instance", "i-3">>)>>)
ArnTopic     == ArnOf(<<"sns">>, <<(<<"orders">>)>>)
\* Identifiers whose sixth field is the kind and whose seventh is the name:
\* 'arn:aws:lambda:us-east-1:111122223333:function:resize'.
ArnFunctionNamedFunction == ArnOf(<<"lambda">>, <<(<<"function">>), (<<"function">>)>>)
ArnFunctionResize == ArnOf(<<"lambda">>, <<(<<"function">>), (<<"resize">>)>>)
ArnFunctionThumbnail == ArnOf(<<"lambda">>, <<(<<"function">>), (<<"thumbnail">>)>>)
ArnNoResource == <<(<<"arn">>), (<<"aws">>), (<<"s3">>), EmptyString, EmptyString, EmptyString>>
ArnMalformed == <<(<<"arn">>), (<<"aws">>), (<<"s3">>)>>

\* "if x:" on a string or None.
Truthy(x) == x # None /\ x # EmptyString

\* '/' in resource_part
HasSlash(field) == Len(field) > 1

\* service.upper() and resource_type.capitalize(), on the strings of the model.
Upper(str) ==
    CASE str = <<"ec2">> -> "EC2"
      [] str = <<"s3">> -> "S3"
      [] str = <<"sns">> -> "SNS"
      [] str = <<"lambda">> -> "LAMBDA"
      [] str = <<"rds">> -> "RDS"
      [] str = <<"dynamodb">> -> "DYNAMODB"
      [] str = <<"elasticloadbalancing">> -> "ELASTICLOADBALANCING"
      [] OTHER -> str[1]

Capitalize(str) ==
    CASE str = <<"instance">> -> "Instance"
      [] str = <<"security-group">> -> "Security-group"
      [] str = <<"vpc">> -> "Vpc"
      [] str = <<"subnet">> -> "Subnet"
      [] str = <<"network-interface">> -> "Network-interface"
      [] str = <<"loadbalancer">> -> "Loadbalancer"
      [] str = <<"db">> -> "Db"
      [] str = <<"table">> -> "Table"
      [] str = <<"orders">> -> "Orders"
      [] str = <<"assets">> -> "Assets"
      [] str = <<"function">> -> "Function"
      [] str = <<"volume">> -> "Volume"
      [] OTHER -> str[1]

\* The static table of _map_service_to_config_type.
Mapping ==
    { <<(<<"ec2">>), (<<"instance">>), (<<"AWS", "EC2", "Instance">>)>>,
      <<(<<"ec2">>), (<<"security-group">>), (<<"AWS", "EC2", "SecurityGroup">>)>>,
      <<(<<"ec2">>), (<<"vpc">>), (<<"AWS", "EC2", "VPC">>)>>,
      <<(<<"ec2">>), (<<"subnet">>), (<<"AWS", "EC2", "Subnet">>)>>,
      <<(<<"ec2">>), (<<"network-interface">>), (<<"AWS", "EC2", "NetworkInterface">>)>>,
      <<(<<"ec2">>), (<<"volume">>), (<<"AWS", "EC2", "Volume">>)>>,
      <<(<<"elasticloadbalancing">>), (<<"loadbalancer">>), (<<"AWS", "ElasticLoadBalancingV2", "LoadBalancer">>)>>,
      <<(<<"rds">>), (<<"db">>), (<<"AWS", "RDS", "DBInstance">>)>>,
      <<(<<"s3">>), EmptyString, (<<"AWS", "S3", "Bucket">>)>>,
      <<(<<"lambda">>), (<<"function">>), (<<"AWS", "Lambda", "Function">>)>>,
      <<(<<"dynamodb">>), (<<"table">>), (<<"AWS", "DynamoDB", "Table">>)>> }

\* mapping.get((service, resource_type), f"AWS::{service.upper()}::{resource_type.capitalize()}");
\* a type 'AWS::X::Y' is the tuple <<"AWS", "X", "Y">>.
MapServiceToConfigType(service, resource_type) ==
    IF \E m \in Mapping : m[1] = service /\ m[2] = resource_type
    THEN (CHOOSE m \in Mapping : m[1] = service /\ m[2] = resource_type)[3]
    ELSE <<"AWS", Upper(service), Capitalize(resource_type)>>

\* A faulty variant of ExtractResourceTypeFromArn: a short identifier is
\* given the type 'unknown' instead of None.
ExtractResourceTypeFromArnUnknown(arn) ==
    LET parts == arn IN
    IF Len(parts) >= 6
    THEN LET service == parts[3]
             resource_part == parts[6]
             resource_type == IF HasSlash(resource_part)
                              THEN <<resource_part[1]>>
                              ELSE resource_part
         IN MapServiceToConfigType(service, resource_type)
    ELSE <<"unknown">>

\* A faulty variant of ExtractResourceTypeFromArn: the kind is taken from
\* the last '/'-segment of the resource part instead of the first.
ExtractResourceTypeFromArnLastSegment(arn) ==
    LET parts == arn IN
    IF Len(parts) >= 6
    THEN LET service == parts[3]
             resource_part == parts[6]
             resource_type == <<resource_part[Len(resource_part)]>>
         IN MapServiceToConfigType(service, resource_type)
    ELSE None

ExtractResourceTypeFromArn(arn) ==
    LET parts == arn IN
    IF Len(parts) >= 6
    THEN LET service == parts[3]
             resource_part == parts[6]
             resource_type == IF HasSlash(resource_part)
                              THEN <<resource_part[1]>>
                              ELSE resource_part
         IN MapServiceToConfigType(service, resource_type)
    ELSE None

ExtractResourceIdFromArn(arn) ==
    LET parts == arn IN
    IF Len(parts) >= 6
    THEN LET resource_part == parts[6] IN
         IF HasSlash(resource_part) THEN Tail(resource_part) ELSE resource_part
    ELSE None

(***************************************************************************)
(* The scanner tool: configuration hydration.                              *)
(***************************************************************************)
\* Bounds of the hydration model. BatchSize stands for the batch_size
\* parameter of _batch_hydrate_configurations (20 by default), scaled down.
MaxResources == 3
BatchSize == 2

\* The identifiers a listing may hand to hydration, in listing order.
ArnUniverse ==
    <<ArnInstance1, ArnTopic, ArnInstance2, ArnMalformed, ArnInstance3, ArnNoResource>>

\* A listing of Lambda functions, whose identifiers separate kind and name
\* with ':', and of a resource without an id.
ColonArnUniverse ==
    <<ArnFunctionNamedFunction, ArnFunctionResize, ArnFunctionThumbnail, ArnNoResource>>

UniverseIds ==
    {ExtractResourceIdFromArn(ArnUniverse[n]) : n \in 1..Len(ArnUniverse)}
    \cup {ExtractResourceIdFromArn(ColonArnUniverse[n]) : n \in 1..Len(ColonArnUniverse)}

\* The Configuration entry of a resource dictionary: the key is missing
\* (Unset), holds None (Null) or holds a configuration item.
Unset == [kind |-> "unset"]
Null == [kind |-> "null"]

\* An item of baseConfigurationItems in a batch_get_resource_config response.
BatchItem(resource_type, resource_id) ==
    [kind |-> "item", resourceType |-> resource_type, resourceId |-> resource_id]

\* The Results of a select_resource_config response are JSON strings;
\* JsonLoads parses one into the document it encodes.
JsonString(doc) == [kind |-> "str", text |-> doc]
JsonLoads(str) == str.text
QueryDocument(arn) == [kind |-> "document", arn |-> arn]

\* How a call to the configuration registry may end.
BatchErrorCodes == {"ValidationException", "ThrottlingException", "AccessDeniedException"}
QueryOutcomes == {"Results", "NoResults", "ThrottlingException", "ClientError", "Exception"}

Min(a, b) == IF a < b THEN a ELSE b

\* resources_by_type, built by lines 99-106: a resource whose type is None
\* is left out; the dictionary keeps the order of first insertion.
AddToGroup(acc, resource_type, n) ==
    IF \E j \in 1..Len(acc) : acc[j].type = resource_type
    THEN LET j == CHOOSE j \in 1..Len(acc) : acc[j].type = resource_type
         IN [acc EXCEPT ![j].members = Append(@, n)]
    ELSE Append(acc, [type |-> resource_type, members |-> <<n>>])

RECURSIVE GroupByType(_, _, _)
GroupByType(rs, n, acc) ==
    IF n > Len(rs) THEN acc
    ELSE LET resource_type == ExtractResourceTypeFromArn(rs[n].ResourceARN) IN
         IF Truthy(resource_type)
         THEN GroupByType(rs, n + 1, AddToGroup(acc, resource_type, n))
         ELSE GroupByType(rs, n + 1, acc)

\* The batch being processed: type_resources[i:i + batch_size], as indices
\* into resources (the dictionaries are shared by reference).
TypeResources == resources_by_type[gi].members
CurrentType == resources_by_type[gi].type
\* A faulty variant of CurrentBatch: a later slice starts one element early.
CurrentBatchOverlapping ==
    SubSeq(TypeResources, IF bi = 0 THEN 1 ELSE bi, Min(bi + BatchSize, Len(TypeResources)))

CurrentBatch == SubSeq(TypeResources, bi + 1, Min(bi + BatchSize, Len(TypeResources)))
BatchSet == {CurrentBatch[j] : j \in 1..Len(CurrentBatch)}

\* A faulty variant of KeyedResources: a type whose batch call was rejected
\* once is remembered, and no key is built for it again.
KeyedResourcesSkipUnsupported ==
    IF \E n \in 1..Len(batch_log) :
          batch_log[n].type = CurrentType /\ batch_log[n].outcome = "ValidationException"
    THEN {}
    ELSE {r \in BatchSet : Truthy(ExtractResourceIdFromArn(resources[r].ResourceARN))}

\* resource_keys of _process_resource_batch: one key per resource of the
\* batch whose extracted id is truthy.
KeyedResources ==
    {r \in BatchSet : Truthy(ExtractResourceIdFromArn(resources[r].ResourceARN))}
ResourceKeyIds ==
    {ExtractResourceIdFromArn(resources[r].ResourceARN) : r \in KeyedResources}

\* The batch handed to one call of _process_resource_batch (line 114), with
\* the number of sleep(0.1) calls made before it.
BatchSlice == [type |-> CurrentType, members |-> CurrentBatch, sleeps |-> sleeps]

\* One batch_get_resource_config call (line 191) as the backend saw it: the
\* type and ids of its resourceKeys, the resources of the batch, how the
\* call ended and, when it succeeded, the ids it returned items for.
BatchCall(outcome, found) ==
    [type |-> CurrentType, members |-> BatchSet, keys |-> ResourceKeyIds,
     outcome |-> outcome, found |-> found]

\* A faulty variant of SetConfiguration: the assignment also clears the tags.
SetConfigurationClearsTags(rs, which, cfg) ==
    [r \in DOMAIN rs |->
        IF r \in which THEN [rs[r] EXCEPT !.Configuration = cfg, !.Tags = <<>>] ELSE rs[r]]

SetConfiguration(rs, which, cfg) ==
    [r \in DOMAIN rs |-> IF r \in which THEN [rs[r] EXCEPT !.Configuration = cfg] ELSE rs[r]]

(***************************************************************************)
(* _fetch_config_by_query for one resource, given how its first           *)
(* select_resource_config call ends and how a retry would end. Yields the  *)
(* Configuration assigned, the calls issued and whether an exception left  *)
(* the function.                                                           *)
(***************************************************************************)
QueryResult(resource_arn, outcome) ==
    IF outcome = "Results"
    THEN JsonLoads(JsonString(QueryDocument(resource_arn)))
    ELSE Null

\* A faulty variant: the retry is not wrapped in its own try, a failing retry escapes.
FetchConfigByQueryRetryUnguarded(resource_arn, first, retry) ==
    CASE first \in {"Results", "NoResults"} ->
           [Configuration |-> QueryResult(resource_arn, first), calls |-> <<first>>, raised |-> FALSE]
      [] first = "ThrottlingException" ->
           IF retry \in {"Results", "NoResults"}
           THEN [Configuration |-> QueryResult(resource_arn, retry), calls |-> <<first, retry>>, raised |-> FALSE]
           ELSE [Configuration |-> Unset, calls |-> <<first, retry>>, raised |-> TRUE]
      [] OTHER ->
           [Configuration |-> Null, calls |-> <<first>>, raised |-> FALSE]

\* A faulty variant: every ClientError is retried, not only throttling.
FetchConfigByQueryRetryAnyClientError(resource_arn, first, retry) ==
    IF first \in {"ThrottlingException", "ClientError"}
    THEN [Configuration |-> QueryResult(resource_arn, retry), calls |-> <<first, retry>>, raised |-> FALSE]
    ELSE [Configuration |-> QueryResult(resource_arn, first), calls |-> <<first>>, raised |-> FALSE]

\* A faulty variant: the parsed result is not stored.
FetchConfigByQueryDropsResult(resource_arn, first, retry) ==
    IF first = "ThrottlingException"
    THEN [Configuration |-> Null, calls |-> <<first, retry>>, raised |-> FALSE]
    ELSE [Configuration |-> Null, calls |-> <<first>>, raised |-> FALSE]

FetchConfigByQuery(resource_arn, first, retry) ==
    CASE first \in {"Results", "NoResults"} ->
           \* lines 261-273: results[0] parsed and stored, or None
           [Configuration |-> QueryResult(resource_arn, first), calls |-> <<first>>, raised |-> FALSE]
      [] first = "ThrottlingException" ->
           \* lines 276-292: sleep(1), one retry; any failure of it gives None
           [Configuration |-> QueryResult(resource_arn, retry), calls |-> <<first, retry>>, raised |-> FALSE]
      [] first = "ClientError" ->
           \* lines 293-295
           [Configuration |-> Null, calls |-> <<first>>, raised |-> FALSE]
      [] OTHER ->
           \* lines 297-299
           [Configuration |-> Null, calls |-> <<first>>, raised |-> FALSE]

(***************************************************************************)
(* _batch_hydrate_configurations, step by step.                            *)
(***************************************************************************)
\* No orchestration is in progress (the state of the orchestration
\* variables throughout SpecHydrate).
OrchIdle ==
    /\ targets = <<>>
    /\ max_workers = 1
    /\ main_pc = "idle"
    /\ submitted = 0
    /\ pc = <<>>
    /\ DEFAULT_SESSION = NoSession
    /\ tagging_client = <<>>
    /\ config_client = <<>>
    /\ scan_result = <<>>
    /\ raised = <<>>
    /\ future = <<>>
    /\ results = <<>>
    /\ file_written = <<>>

\* The Tags of a listed resource: the tag the listing filtered on and a
\* tag of the resource's own.
TagsOf(n) == <<[Key |-> "env", Value |-> "prod"], [Key |-> "Name", Value |-> n]>>

\* The resource dictionaries of the identifiers chosen by `chosen`, in the
\* order of the universe; a listed resource has no Configuration key yet.
RECURSIVE ListedFrom(_, _)
ListedFrom(universe, chosen) ==
    IF chosen = {} THEN <<>>
    ELSE LET first == CHOOSE n \in chosen : \A m \in chosen : n <= m
         IN <<[ResourceARN |-> universe[first], Tags |-> TagsOf(first),
               Configuration |-> Unset]>>
            \o ListedFrom(universe, chosen \ {first})

Listed(chosen) == ListedFrom(ArnUniverse, chosen)

\* A call of _batch_hydrate_configurations on a list of resources, which
\* may be empty when the method is called on its own.
HydrateStart ==
    /\ OrchIdle
    /\ resources_by_type = <<>>
    /\ hpc = "group"
    /\ gi = 0
    /\ bi = 0
    /\ k = 0
    /\ configs_by_id = <<>>
    /\ batch_calls = 0
    /\ batch_outcome = [r \in DOMAIN resources |-> "none"]
    /\ query_log = [r \in DOMAIN resources |-> <<>>]
    /\ sleeps = 0
    /\ batch_log = <<>>
    /\ slices = <<>>
    /\ fetches = [r \in DOMAIN resources |-> 0]
    /\ ListIdle
    /\ ClassifyIdle
    /\ ValidateIdle
    /\ MainIdle
    /\ RescanIdle
    /\ RunIdle

InitHydrate ==
    /\ \E chosen \in SUBSET (1..Len(ArnUniverse)) :
         /\ Cardinality(chosen) \in 0..MaxResources
         /\ resources = Listed(chosen)
    /\ HydrateStart

\* Lines 98-106: classify and group; then enter the loops of lines 109-115
\* (no group at all: the function returns).
GroupResources ==
    /\ hpc = "group"
    /\ resources_by_type' = GroupByType(resources, 1, <<>>)
    /\ hpc' = IF resources_by_type' = <<>> THEN "done" ELSE "batch"
    /\ gi' = IF resources_by_type' = <<>> THEN 0 ELSE 1
    /\ UNCHANGED <<resources, bi, k, configs_by_id, batch_calls, batch_outcome,
                   query_log, sleeps, batch_log, fetches, slices>>
    /\ UNCHANGED <<orchVars, listVars, classVars, cfgVars, mainVars, rescanVars, runVars, saveVars>>

\* A faulty variant of MoreBatches: only the first batch of a type is processed.
MoreBatchesNever == FALSE

\* _process_resource_batch has returned: lines 117-119 and the loop heads.
\* More batches of this type: sleep next; else the next type, or return.
MoreBatches == bi + BatchSize < Len(TypeResources)

BatchReturns ==
    /\ hpc' = IF MoreBatches THEN "sleep"
              ELSE IF gi < Len(resources_by_type) THEN "batch" ELSE "done"
    /\ gi' = IF ~MoreBatches /\ gi < Len(resources_by_type) THEN gi + 1 ELSE gi
    /\ bi' = IF MoreBatches THEN bi ELSE 0
    /\ k' = 0
    /\ configs_by_id' = <<>>

\* A faulty variant of InterBatchDelay: the next batch follows at once.
InterBatchDelayNoSleep ==
    /\ hpc = "sleep"
    /\ bi' = bi + BatchSize
    /\ hpc' = "batch"
    /\ UNCHANGED <<resources, resources_by_type, gi, k, configs_by_id, batch_calls,
                   batch_outcome, query_log, batch_log, fetches, slices, sleeps>>
    /\ UNCHANGED <<orchVars, listVars, classVars, cfgVars, mainVars, rescanVars, runVars, saveVars>>

\* A faulty variant of InterBatchDelay: the loop variable does not advance,
\* the same batch is processed again.
InterBatchDelayStaysOnBatch ==
    /\ hpc = "sleep"
    /\ hpc' = "batch"
    /\ UNCHANGED <<resources, resources_by_type, gi, bi, k, configs_by_id, batch_calls,
                   batch_outcome, query_log, batch_log, fetches, slices, sleeps>>
    /\ UNCHANGED <<orchVars, listVars, classVars, cfgVars, mainVars, rescanVars, runVars, saveVars>>

\* sleep(0.1), then the next batch of the same type.
InterBatchDelay ==
    /\ hpc = "sleep"
    /\ sleeps' = sleeps + 1
    /\ bi' = bi + BatchSize
    /\ hpc' = "batch"
    /\ UNCHANGED <<resources, resources_by_type, gi, k, configs_by_id, batch_calls,
                   batch_outcome, query_log, batch_log, fetches, slices>>
    /\ UNCHANGED <<orchVars, listVars, classVars, cfgVars, mainVars, rescanVars, runVars, saveVars>>

\* Lines 178-189 with no key built: no call is made, nothing is assigned.
BatchSkipNoKeys ==
    /\ hpc = "batch"
    /\ KeyedResources = {}
    /\ BatchReturns
    /\ slices' = Append(slices, BatchSlice)
    /\ UNCHANGED <<resources, resources_by_type, batch_calls, batch_outcome,
                   query_log, sleeps, batch_log, fetches>>
    /\ UNCHANGED <<orchVars, listVars, classVars, cfgVars, mainVars, rescanVars, runVars, saveVars>>

\* Lines 190-199: the batch call succeeds and returns items for the ids of
\* `found`; configs_by_id is built and the matching loop starts.
BatchGetOk(found) ==
    /\ hpc = "batch"
    /\ KeyedResources # {}
    /\ found \subseteq ResourceKeyIds
    /\ batch_calls' = batch_calls + 1
    /\ batch_outcome' = [r \in DOMAIN resources |->
                           IF r \in BatchSet THEN "ok" ELSE batch_outcome[r]]
    /\ configs_by_id' = [id \in found |-> BatchItem(CurrentType, id)]
    /\ hpc' = "match"
    /\ k' = 1
    /\ batch_log' = Append(batch_log, BatchCall("ok", found))
    /\ slices' = Append(slices, BatchSlice)
    /\ UNCHANGED <<resources, resources_by_type, gi, bi, query_log, sleeps, fetches>>
    /\ UNCHANGED <<orchVars, listVars, classVars, cfgVars, mainVars, rescanVars, runVars, saveVars>>

\* A faulty variant: ValidationException is handled like any other error code.
BatchGetUnsupportedSetsNone ==
    /\ hpc = "batch"
    /\ KeyedResources # {}
    /\ batch_calls' = batch_calls + 1
    /\ batch_outcome' = [r \in DOMAIN resources |->
                           IF r \in BatchSet THEN "ValidationException" ELSE batch_outcome[r]]
    /\ resources' = SetConfiguration(resources, BatchSet, Null)
    /\ BatchReturns
    /\ batch_log' = Append(batch_log, BatchCall("ValidationException", {}))
    /\ slices' = Append(slices, BatchSlice)
    /\ UNCHANGED <<resources_by_type, query_log, sleeps, fetches>>
    /\ UNCHANGED <<orchVars, listVars, classVars, cfgVars, mainVars, rescanVars, runVars, saveVars>>

\* Lines 212-219: the batch call fails with ValidationException; the loop
\* over the batch that queries every resource starts.
BatchGetUnsupported ==
    /\ hpc = "batch"
    /\ KeyedResources # {}
    /\ batch_calls' = batch_calls + 1
    /\ batch_outcome' = [r \in DOMAIN resources |->
                           IF r \in BatchSet THEN "ValidationException" ELSE batch_outcome[r]]
    /\ hpc' = "unsupported"
    /\ k' = 1
    /\ batch_log' = Append(batch_log, BatchCall("ValidationException", {}))
    /\ slices' = Append(slices, BatchSlice)
    /\ UNCHANGED <<resources, resources_by_type, gi, bi, configs_by_id, query_log, sleeps,
                   fetches>>
    /\ UNCHANGED <<orchVars, listVars, classVars, cfgVars, mainVars, rescanVars, runVars, saveVars>>

\* A faulty variant: every failure of the batch call routes the batch to the
\* per-resource query.
BatchGetFailsFallsBack(code) ==
    /\ hpc = "batch"
    /\ KeyedResources # {}
    /\ code \in (BatchErrorCodes \ {"ValidationException"}) \cup {"Exception"}
    /\ batch_calls' = batch_calls + 1
    /\ batch_outcome' = [r \in DOMAIN resources |->
                           IF r \in BatchSet THEN code ELSE batch_outcome[r]]
    /\ hpc' = "unsupported"
    /\ k' = 1
    /\ batch_log' = Append(batch_log, BatchCall(code, {}))
    /\ slices' = Append(slices, BatchSlice)
    /\ UNCHANGED <<resources, resources_by_type, gi, bi, configs_by_id, query_log, sleeps,
                   fetches>>
    /\ UNCHANGED <<orchVars, listVars, classVars, cfgVars, mainVars, rescanVars, runVars, saveVars>>

\* Lines 220-228: the batch call fails with another ClientError code, or
\* with an exception that is no ClientError; every resource of the batch
\* gets Configuration None and the function returns.
BatchGetFails(code) ==
    /\ hpc = "batch"
    /\ KeyedResources # {}
    /\ code \in (BatchErrorCodes \ {"ValidationException"}) \cup {"Exception"}
    /\ batch_calls' = batch_calls + 1
    /\ batch_outcome' = [r \in DOMAIN resources |->
                           IF r \in BatchSet THEN code ELSE batch_outcome[r]]
    /\ resources' = SetConfiguration(resources, BatchSet, Null)
    /\ BatchReturns
    /\ batch_log' = Append(batch_log, BatchCall(code, {}))
    /\ slices' = Append(slices, BatchSlice)
    /\ UNCHANGED <<resources_by_type, query_log, sleeps, fetches>>
    /\ UNCHANGED <<orchVars, listVars, classVars, cfgVars, mainVars, rescanVars, runVars, saveVars>>

\* The end of one iteration of a per-resource loop.
LoopStep ==
    IF k < Len(CurrentBatch)
    THEN k' = k + 1 /\ UNCHANGED <<hpc, gi, bi, configs_by_id>>
    ELSE BatchReturns

\* A faulty variant of MatchFound: the else of line 208 is lost, a matched
\* resource is queried as well and the query's result replaces the item.
MatchFoundThenQuery ==
    /\ hpc = "match"
    /\ LET r == CurrentBatch[k]
           resource_id == ExtractResourceIdFromArn(resources[r].ResourceARN)
           fetched == FetchConfigByQuery(resources[r].ResourceARN, "Results", "Results")
       IN /\ resource_id \in DOMAIN configs_by_id
          /\ resources' = SetConfiguration(resources, {r}, fetched.Configuration)
          /\ query_log' = [query_log EXCEPT ![r] = @ \o fetched.calls]
          /\ fetches' = [fetches EXCEPT ![r] = @ + 1]
    /\ LoopStep
    /\ UNCHANGED <<resources_by_type, batch_calls, batch_outcome, sleeps, batch_log, slices>>
    /\ UNCHANGED <<orchVars, listVars, classVars, cfgVars, mainVars, rescanVars, runVars, saveVars>>

\* Lines 201-207: the resource's id is a key of configs_by_id.
MatchFound ==
    /\ hpc = "match"
    /\ LET r == CurrentBatch[k]
           resource_id == ExtractResourceIdFromArn(resources[r].ResourceARN)
       IN /\ resource_id \in DOMAIN configs_by_id
          /\ resources' = SetConfiguration(resources, {r}, configs_by_id[resource_id])
    /\ LoopStep
    /\ UNCHANGED <<resources_by_type, batch_calls, batch_outcome, query_log, sleeps,
                   batch_log, fetches, slices>>
    /\ UNCHANGED <<orchVars, listVars, classVars, cfgVars, mainVars, rescanVars, runVars, saveVars>>

\* Lines 208-210: no item for the resource, _fetch_config_by_query. An
\* exception leaving it inside the try block would be caught by line 225.
MatchFallback(first, retry) ==
    /\ hpc = "match"
    /\ LET r == CurrentBatch[k]
           resource_id == ExtractResourceIdFromArn(resources[r].ResourceARN)
           fetched == FetchConfigByQuery(resources[r].ResourceARN, first, retry)
       IN /\ resource_id \notin DOMAIN configs_by_id
          /\ query_log' = [query_log EXCEPT ![r] = @ \o fetched.calls]
          /\ fetches' = [fetches EXCEPT ![r] = @ + 1]
          /\ IF fetched.raised
             THEN /\ resources' = SetConfiguration(resources, BatchSet, Null)
                  /\ BatchReturns
             ELSE /\ resources' = SetConfiguration(resources, {r}, fetched.Configuration)
                  /\ LoopStep
    /\ UNCHANGED <<resources_by_type, batch_calls, batch_outcome, sleeps, batch_log, slices>>
    /\ UNCHANGED <<orchVars, listVars, classVars, cfgVars, mainVars, rescanVars, runVars, saveVars>>

\* Lines 218-219: _fetch_config_by_query for a resource of an unsupported
\* batch. This loop runs inside the except clause: an exception leaving the
\* query would leave _batch_hydrate_configurations.
FallbackUnsupported(first, retry) ==
    /\ hpc = "unsupported"
    /\ LET r == CurrentBatch[k]
           fetched == FetchConfigByQuery(resources[r].ResourceARN, first, retry)
       IN /\ query_log' = [query_log EXCEPT ![r] = @ \o fetched.calls]
          /\ fetches' = [fetches EXCEPT ![r] = @ + 1]
          /\ IF fetched.raised
             THEN /\ hpc' = "raised"
                  /\ UNCHANGED <<resources, gi, bi, k, configs_by_id>>
             ELSE /\ resources' = SetConfiguration(resources, {r}, fetched.Configuration)
                  /\ LoopStep
    /\ UNCHANGED <<resources_by_type, batch_calls, batch_outcome, sleeps, batch_log, slices>>
    /\ UNCHANGED <<orchVars, listVars, classVars, cfgVars, mainVars, rescanVars, runVars, saveVars>>

NextHydrate ==
    \/ GroupResources
    \/ BatchSkipNoKeys
    \/ \E found \in SUBSET UniverseIds : BatchGetOk(found)
    \/ BatchGetUnsupported
    \/ \E code \in BatchErrorCodes \cup {"Exception"} : BatchGetFails(code)
    \/ MatchFound
    \/ \E first, retry \in QueryOutcomes : MatchFallback(first, retry)
    \/ \E first, retry \in QueryOutcomes : FallbackUnsupported(first, retry)
    \/ InterBatchDelay

SpecHydrate == InitHydrate /\ [][NextHydrate]_vars

\* The same call when every call to the backend returns or fails and the
\* thread keeps running: a step that can be taken is taken.
SpecHydrateFair == SpecHydrate /\ WF_vars(NextHydrate)

\* The same call on a listing of Lambda functions.
InitHydrateColon ==
    /\ \E chosen \in SUBSET (1..Len(ColonArnUniverse)) :
         /\ Cardinality(chosen) \in 1..MaxResources
         /\ resources = ListedFrom(ColonArnUniverse, chosen)
    /\ HydrateStart

SpecHydrateColon == InitHydrateColon /\ [][NextHydrate]_vars

(***************************************************************************)
(* _scan_by_tags_globally: the paginated tag listing, then hydration.      *)
(***************************************************************************)
\* PageSize stands for ResourcesPerPage=100 (line 63), scaled down.
PageSize == 2

\* What get_resources may fail with: a ClientError or another exception.
ListingErrors == {"AccessDeniedException", "EndpointConnectionError"}

Returned(list) == [kind |-> "returned", value |-> list]
ErrorItem(e) == [error |-> e]

\* A call of _scan_by_tags_globally: all_resource_mappings (the list that
\* hydration later receives, `resources`) is empty and the paginator has
\* fetched nothing.
InitScan ==
    /\ OrchIdle
    /\ HydrateIdle
    /\ ClassifyIdle
    /\ ValidateIdle
    /\ MainIdle
    /\ RescanIdle
    /\ RunIdle
    /\ \E chosen \in SUBSET (1..Len(ArnUniverse)) :
         /\ Cardinality(chosen) \in 0..MaxResources
         /\ tagged = Listed(chosen)
    /\ pagination_token = 0
    /\ pages = <<>>
    /\ spc = "paginate"
    /\ scan_return = NotReturned
    /\ listing_error = NoError

\* The paginator requests a page: the first one always, a further one while
\* the last page carried a continuation token.
PageDue == spc = "paginate" /\ (pages = <<>> \/ pagination_token < Len(tagged))
ListingComplete == spc = "paginate" /\ pages # <<>> /\ pagination_token = Len(tagged)

\* A faulty variant of GetResourcesPage: the page replaces the list instead
\* of extending it.
GetResourcesPageKeepsLast(n) ==
    /\ PageDue
    /\ n <= Len(tagged) - pagination_token
    /\ n = 0 => Len(tagged) = 0
    /\ resources' = SubSeq(tagged, pagination_token + 1, pagination_token + n)
    /\ pagination_token' = pagination_token + n
    /\ pages' = Append(pages, n)
    /\ batch_outcome' = [r \in DOMAIN resources' |-> "none"]
    /\ query_log' = [r \in DOMAIN resources' |-> <<>>]
    /\ fetches' = [r \in DOMAIN resources' |-> 0]
    /\ UNCHANGED <<resources_by_type, hpc, gi, bi, k, configs_by_id, batch_calls,
                   sleeps, batch_log, slices>>
    /\ UNCHANGED <<tagged, spc, scan_return, listing_error>>
    /\ UNCHANGED <<orchVars, classVars, cfgVars, mainVars, rescanVars, runVars, saveVars>>

\* Lines 63-65: one page of n resources arrives (n = 0 only when nothing is
\* tagged) and all_resource_mappings is extended with it.
GetResourcesPage(n) ==
    /\ PageDue
    /\ n <= Len(tagged) - pagination_token
    /\ n = 0 => Len(tagged) = 0
    /\ resources' = resources \o SubSeq(tagged, pagination_token + 1, pagination_token + n)
    /\ pagination_token' = pagination_token + n
    /\ pages' = Append(pages, n)
    /\ batch_outcome' = [r \in DOMAIN resources' |-> "none"]
    /\ query_log' = [r \in DOMAIN resources' |-> <<>>]
    /\ fetches' = [r \in DOMAIN resources' |-> 0]
    /\ UNCHANGED <<resources_by_type, hpc, gi, bi, k, configs_by_id, batch_calls,
                   sleeps, batch_log, slices>>
    /\ UNCHANGED <<tagged, spc, scan_return, listing_error>>
    /\ UNCHANGED <<orchVars, classVars, cfgVars, mainVars, rescanVars, runVars, saveVars>>

\* A faulty variant of GetResourcesFails: the pages fetched so far are
\* returned together with the error.
GetResourcesFailsKeepsPages(e) ==
    /\ PageDue
    /\ listing_error' = e
    /\ scan_return' = Returned(resources \o <<ErrorItem(e)>>)
    /\ spc' = "returned"
    /\ UNCHANGED <<tagged, pagination_token, pages>>
    /\ UNCHANGED <<hydVars, orchVars, classVars, cfgVars, mainVars, rescanVars, runVars, saveVars>>

\* Lines 70-75: the request of a page raises; the function returns the
\* one-element list holding the error.
GetResourcesFails(e) ==
    /\ PageDue
    /\ listing_error' = e
    /\ scan_return' = Returned(<<ErrorItem(e)>>)
    /\ spc' = "returned"
    /\ UNCHANGED <<tagged, pagination_token, pages>>
    /\ UNCHANGED <<hydVars, orchVars, classVars, cfgVars, mainVars, rescanVars, runVars, saveVars>>

\* A faulty variant of ReturnEmpty: an empty listing is reported as an error.
ReturnEmptyAsError ==
    /\ ListingComplete
    /\ resources = <<>>
    /\ scan_return' = Returned(<<ErrorItem("No resources found")>>)
    /\ spc' = "returned"
    /\ UNCHANGED <<tagged, pagination_token, pages, listing_error>>
    /\ UNCHANGED <<hydVars, orchVars, classVars, cfgVars, mainVars, rescanVars, runVars, saveVars>>

\* Lines 77-79: nothing was listed, return [].
ReturnEmpty ==
    /\ ListingComplete
    /\ resources = <<>>
    /\ scan_return' = Returned(<<>>)
    /\ spc' = "returned"
    /\ UNCHANGED <<tagged, pagination_token, pages, listing_error>>
    /\ UNCHANGED <<hydVars, orchVars, classVars, cfgVars, mainVars, rescanVars, runVars, saveVars>>

\* A faulty variant of CallHydrate: hydration starts as soon as a page has
\* brought resources, before the listing is complete.
CallHydrateEarly ==
    /\ spc = "paginate"
    /\ resources # <<>>
    /\ spc' = "hydrate"
    /\ hpc' = "group"
    /\ pages' = <<>>
    /\ UNCHANGED <<resources, resources_by_type, gi, bi, k, configs_by_id, batch_calls,
                   batch_outcome, query_log, sleeps, batch_log, fetches, slices>>
    /\ UNCHANGED <<tagged, pagination_token, scan_return, listing_error>>
    /\ UNCHANGED <<orchVars, classVars, cfgVars, mainVars, rescanVars, runVars, saveVars>>

\* Line 82: _batch_hydrate_configurations(all_resource_mappings, config_client).
\* The page loop is over; the record of its pages is dropped with it.
CallHydrate ==
    /\ ListingComplete
    /\ resources # <<>>
    /\ spc' = "hydrate"
    /\ hpc' = "group"
    /\ pages' = <<>>
    /\ UNCHANGED <<resources, resources_by_type, gi, bi, k, configs_by_id, batch_calls,
                   batch_outcome, query_log, sleeps, batch_log, fetches, slices>>
    /\ UNCHANGED <<tagged, pagination_token, scan_return, listing_error>>
    /\ UNCHANGED <<orchVars, classVars, cfgVars, mainVars, rescanVars, runVars, saveVars>>

\* Line 84: hydration has returned; return all_resource_mappings.
ReturnInventory ==
    /\ spc = "hydrate"
    /\ hpc = "done"
    /\ scan_return' = Returned(resources)
    /\ spc' = "returned"
    /\ UNCHANGED <<tagged, pagination_token, pages, listing_error>>
    /\ UNCHANGED <<hydVars, orchVars, classVars, cfgVars, mainVars, rescanVars, runVars, saveVars>>

NextScan ==
    \/ \E n \in 0..PageSize : GetResourcesPage(n)
    \/ \E e \in ListingErrors : GetResourcesFails(e)
    \/ ReturnEmpty
    \/ CallHydrate
    \/ NextHydrate
    \/ ReturnInventory

\* The scanner's two entry points: the whole scan, or hydration on its own.
SpecScan == (InitScan \/ InitHydrate) /\ [][NextScan]_vars

(***************************************************************************)
(* _extract_resource_type_from_arn on its own, over a bounded set of       *)
(* identifiers.                                                            *)
(***************************************************************************)
\* The longest identifier, in ':'-separated fields.
MaxFields == 7

Services == {m[1] : m \in Mapping} \cup {<<"sns">>}
Kinds == {m[2] : m \in Mapping} \cup {<<"orders">>}

\* Identifiers 'arn:aws:<service>:us-east-1:111122223333:<resource>' with
\* the resource part '<kind>' or '<kind>/name', followed by further
\* ':'-separated fields up to MaxFields, and every proper prefix of them in
\* whole fields.
FullIdentifiers ==
    {ArnOf(service, <<resource_part>> \o [n \in 1..(MaxFields - 6) |-> <<"name">>]) :
        service \in Services,
        resource_part \in {<<kind[1]>> : kind \in Kinds} \cup {<<kind[1], "name">> : kind \in Kinds}}

ClassifyInputs ==
    {SubSeq(full, 1, n) : full \in FullIdentifiers, n \in 1..MaxFields}

InitClassify ==
    /\ OrchIdle
    /\ HydrateIdle
    /\ ListIdle
    /\ ValidateIdle
    /\ MainIdle
    /\ RescanIdle
    /\ RunIdle
    /\ classify_arn \in ClassifyInputs
    /\ cpc = "call"
    /\ classified = <<>>

\* Lines 126-144: the call returns a type or None; the try block lets no
\* exception out.
Classify ==
    /\ cpc = "call"
    /\ classified' = ExtractResourceTypeFromArn(classify_arn)
    /\ cpc' = "returned"
    /\ UNCHANGED classify_arn
    /\ UNCHANGED <<orchVars, hydVars, listVars, cfgVars, mainVars, rescanVars, runVars, saveVars>>

NextClassify == Classify

SpecClassify == InitClassify /\ [][NextClassify]_vars

(***************************************************************************)
(* Properties of hydration, checked under SpecHydrate.                     *)
(***************************************************************************)
Configuration(r) == resources[r].Configuration
Arn(r) == resources[r].ResourceARN
Last(log) == log[Len(log)]
QueryFailures == {"ThrottlingException", "ClientError", "Exception"}
BatchFailures == BatchErrorCodes \cup {"Exception"}

\* C6: no exception ever leaves _batch_hydrate_configurations, whatever the
\* batch calls and the query calls do; and once it has returned, a resource
\* whose batch call failed and whose fallback calls all failed has
\* Configuration None.
C6_HydrateNeverRaises ==
    /\ hpc # "raised"
    /\ hpc = "done" =>
         \A r \in DOMAIN resources :
            ( /\ batch_outcome[r] \in BatchFailures
              /\ query_log[r] # <<>>
              /\ \A n \in 1..Len(query_log[r]) : query_log[r][n] \in QueryFailures )
            => Configuration(r) = Null

\* Hydration has returned, and for some resource the batch call failed
\* (type unsupported), the fallback query throttled and its retry failed.
C6_Witness ==
    /\ hpc = "done"
    /\ \E r \in DOMAIN resources :
         /\ batch_outcome[r] = "ValidationException"
         /\ query_log[r] = <<"ThrottlingException", "Exception">>
         /\ Configuration(r) = Null

\* The fallback query of r was attempted, with its retry if the first
\* attempt throttled, and ended in a failure or without a match.
FallbackExhausted(r) ==
    /\ query_log[r] # <<>>
    /\ Last(query_log[r]) \in QueryFailures \cup {"NoResults"}
    /\ query_log[r][1] = "ThrottlingException" => Len(query_log[r]) = 2

OtherBatchErrors == BatchFailures \ {"ThrottlingException", "ValidationException"}

C9_ThrottleRetry ==
    \A r \in DOMAIN resources :
        /\ query_log[r] = <<"ThrottlingException", "Results">>
             => Configuration(r) = QueryDocument(Arn(r))
        /\ query_log[r] = <<"ThrottlingException", "ThrottlingException">>
             => Configuration(r) = Null

\* One resource was populated by a retry, another throttled twice.
C9_Witness ==
    \E r, q \in DOMAIN resources :
        /\ query_log[r] = <<"ThrottlingException", "Results">>
        /\ Configuration(r) = QueryDocument(Arn(r))
        /\ query_log[q] = <<"ThrottlingException", "ThrottlingException">>
        /\ Configuration(q) = Null

\* C10: the fallback issues at most two queries for a resource, a second
\* one only after the first throttled; a first failure of another kind
\* leaves Configuration None with no second query.
C10_OneRetryOnly ==
    \A r \in DOMAIN resources :
        /\ Len(query_log[r]) <= 2
        /\ Len(query_log[r]) = 2 => query_log[r][1] = "ThrottlingException"
        /\ (query_log[r] # <<>> /\ query_log[r][1] \in {"ClientError", "Exception"})
             => Len(query_log[r]) = 1 /\ Configuration(r) = Null

\* One resource had its query retried after throttling, another had a
\* single query that failed otherwise.
C10_Witness ==
    \E r, q \in DOMAIN resources :
        /\ Len(query_log[r]) = 2 /\ query_log[r][1] = "ThrottlingException"
        /\ query_log[q] = <<"ClientError">> /\ Configuration(q) = Null

\* The batch call recorded as batch_log[n] and the loop that follows it
\* have been completed.
BatchFinished(n) == n < Len(batch_log) \/ hpc \in {"batch", "sleep", "done"}

\* C11: when a batch call fails with ValidationException, every resource of
\* that batch (keyed or not) gets one invocation of the per-resource
\* fallback query, which issues at least one select_resource_config call,
\* and no exception leaves _batch_hydrate_configurations.
C11_UnsupportedRoutesToFallback ==
    /\ hpc # "raised"
    /\ \A n \in 1..Len(batch_log) :
         (batch_log[n].outcome = "ValidationException" /\ BatchFinished(n)) =>
             \A r \in batch_log[n].members :
                 fetches[r] = 1 /\ Len(query_log[r]) >= 1

\* Hydration has returned after a batch of two resources was rejected as
\* unsupported and each of the two was queried.
C11_Witness ==
    /\ hpc = "done"
    /\ \E n \in 1..Len(batch_log) :
         /\ batch_log[n].outcome = "ValidationException"
         /\ Cardinality(batch_log[n].members) = 2
         /\ \A r \in batch_log[n].members : fetches[r] = 1 /\ query_log[r] # <<>>

\* C12 (as claimed): once a batch call for a type has failed with
\* ValidationException, no later batch call is issued for that type.
C12_NoBatchCallAfterUnsupported ==
    \A n, m \in 1..Len(batch_log) :
        (n < m /\ batch_log[n].type = batch_log[m].type)
            => batch_log[n].outcome # "ValidationException"

\* C12 (amended): a ValidationException affects only its own batch. When
\* hydration returns, every resource of the same type outside the rejected
\* batch that has a truthy id was covered by a batch call of its own batch.
C12_UnsupportedAffectsOnlyItsBatch ==
    hpc = "done" =>
        \A n \in 1..Len(batch_log) :
            batch_log[n].outcome = "ValidationException" =>
                \A r \in DOMAIN resources :
                    ( /\ ExtractResourceTypeFromArn(Arn(r)) = batch_log[n].type
                      /\ Truthy(ExtractResourceIdFromArn(Arn(r)))
                      /\ r \notin batch_log[n].members )
                    => \E m \in 1..Len(batch_log) : m # n /\ r \in batch_log[m].members

\* Hydration has returned after the first batch of a type was rejected as
\* unsupported and a later batch of the same type was sent all the same.
C12_Witness ==
    /\ hpc = "done"
    /\ \E n, m \in 1..Len(batch_log) :
         /\ n < m
         /\ batch_log[n].type = batch_log[m].type
         /\ batch_log[n].outcome = "ValidationException"

\* An identifier is well formed: it has the six fields of an ARN and a
\* non-empty resource id.
WellFormed(a) == Len(a) >= 6 /\ Truthy(ExtractResourceIdFromArn(a))

CeilDiv(n, b) == (n + b - 1) \div b

CountOfType(resource_type) ==
    Cardinality({r \in DOMAIN resources : ExtractResourceTypeFromArn(Arn(r)) = resource_type})

RECURSIVE SumOfBatches(_)
SumOfBatches(types) ==
    IF types = {} THEN 0
    ELSE LET resource_type == CHOOSE x \in types : TRUE
         IN CeilDiv(CountOfType(resource_type), BatchSize)
            + SumOfBatches(types \ {resource_type})

ExpectedBatchCalls ==
    SumOfBatches({ExtractResourceTypeFromArn(Arn(r)) : r \in DOMAIN resources})

\* C13: for resources with well-formed identifiers, with n_1..n_k resources
\* per type, a completed hydration has issued exactly
\* ceil(n_1/BatchSize) + ... + ceil(n_k/BatchSize) batch calls.
C13_BatchCallCount ==
    (hpc = "done" /\ \A r \in DOMAIN resources : WellFormed(Arn(r))) =>
        /\ batch_calls = ExpectedBatchCalls
        /\ Len(batch_log) = batch_calls

\* Hydration of three well-formed resources, two of one type and one of
\* another with batches of two, or three of one type, has returned.
C13_Witness ==
    /\ hpc = "done"
    /\ Len(resources) = MaxResources
    /\ \A r \in DOMAIN resources : WellFormed(Arn(r))
    /\ batch_calls = 2
    /\ \E n, m \in 1..Len(batch_log) : n # m /\ batch_log[n].type = batch_log[m].type

\* C14: after a successful batch call, a resource of the batch whose id has
\* an item in the response holds that item as Configuration and was never
\* queried; a resource of the batch with no item in the response had exactly
\* one invocation of _fetch_config_by_query.
C14_MatchedOrOneFallback ==
    \A n \in 1..Len(batch_log) :
        (batch_log[n].outcome = "ok" /\ BatchFinished(n)) =>
            \A r \in batch_log[n].members :
                LET resource_id == ExtractResourceIdFromArn(Arn(r)) IN
                /\ resource_id \in batch_log[n].found =>
                      /\ Configuration(r) = BatchItem(batch_log[n].type, resource_id)
                      /\ fetches[r] = 0
                      /\ query_log[r] = <<>>
                /\ resource_id \notin batch_log[n].found =>
                      /\ fetches[r] = 1
                      /\ Len(query_log[r]) >= 1

\* Hydration has returned after a successful batch call whose response held
\* an item for one resource of the batch and none for another.
C14_Witness ==
    /\ hpc = "done"
    /\ \E n \in 1..Len(batch_log) :
         /\ batch_log[n].outcome = "ok"
         /\ \E r, q \in batch_log[n].members :
              /\ ExtractResourceIdFromArn(Arn(r)) \in batch_log[n].found
              /\ Configuration(r).kind = "item" /\ fetches[r] = 0
              /\ ExtractResourceIdFromArn(Arn(q)) \notin batch_log[n].found
              /\ fetches[q] = 1

\* C15 (as claimed): batch results are matched back by identifier. Two
\* resources of one batch with different ARNs never hold the same returned
\* item, and an item a resource holds was returned for that resource's id.
C15_ItemsMatchedByIdentifier ==
    \A n \in 1..Len(batch_log) :
        \A r, q \in batch_log[n].members :
            /\ (Arn(r) # Arn(q) /\ Configuration(r).kind = "item")
                   => Configuration(r) # Configuration(q)
            /\ Configuration(r).kind = "item"
                   => /\ Configuration(r).resourceId = ExtractResourceIdFromArn(Arn(r))
                      /\ Configuration(r).resourceId \in batch_log[n].found

(***************************************************************************)
(* Properties of the tag listing, checked under SpecScan.                  *)
(***************************************************************************)
RECURSIVE SumOfPages(_)
SumOfPages(sizes) == IF sizes = <<>> THEN 0 ELSE Head(sizes) + SumOfPages(Tail(sizes))

Arns(list) == [n \in DOMAIN list |-> list[n].ResourceARN]

\* C16: while pages arrive, all_resource_mappings is the concatenation of
\* the pages served so far, in order, and its length is the sum of their
\* sizes; the paginator stops only when the service has served everything;
\* and a scan whose listing did not fail returns exactly the tagged
\* resources, in page order, none lost and none repeated.
C16_ListingConcatenatesPages ==
    /\ spc = "paginate" =>
          /\ Len(resources) = SumOfPages(pages)
          /\ pagination_token = SumOfPages(pages)
          /\ resources = SubSeq(tagged, 1, pagination_token)
    /\ spc = "hydrate" => Arns(resources) = Arns(tagged)
    /\ (spc = "returned" /\ listing_error = NoError) =>
          /\ pagination_token = Len(tagged)
          /\ Len(scan_return.value) = Len(tagged)
          /\ Arns(scan_return.value) = Arns(tagged)

\* Three pages of one resource each have been listed and the page loop is
\* about to end with three resources.
C16_Witness ==
    /\ ListingComplete
    /\ pages = <<1, 1, 1>>
    /\ Len(resources) = 3
    /\ Arns(resources) = Arns(tagged)

\* No call to the configuration registry has been made.
NoRegistryCalls ==
    /\ batch_calls = 0
    /\ batch_log = <<>>
    /\ \A r \in DOMAIN resources : query_log[r] = <<>> /\ fetches[r] = 0

\* C17: when the request of any page fails, the scan returns a list that
\* holds the error and nothing else (no resource of an earlier page), and
\* no batch or query call is made for that scan.
C17_ListingFailureAborts ==
    listing_error # NoError =>
        /\ spc = "returned"
        /\ scan_return = Returned(<<ErrorItem(listing_error)>>)
        /\ \A n \in DOMAIN scan_return.value :
              "ResourceARN" \notin DOMAIN scan_return.value[n]
        /\ hpc = "idle"
        /\ NoRegistryCalls

\* The second page failed after a first page of two resources.
C17_Witness ==
    /\ listing_error # NoError
    /\ pages = <<2>>
    /\ Len(resources) = 2
    /\ Len(tagged) = 3
    /\ spc = "returned"

\* C18: a scan whose listing succeeds with zero resources returns the empty
\* list, not an error, without invoking hydration and without any call to
\* the configuration registry; and hydration called on an empty list makes
\* no call either, sleeps never and leaves the list empty.
C18_EmptyListingNoCalls ==
    /\ (spc = "returned" /\ listing_error = NoError /\ tagged = <<>>) =>
          /\ scan_return = Returned(<<>>)
          /\ hpc = "idle"
          /\ NoRegistryCalls
    /\ (spc = "idle" /\ Len(batch_outcome) = 0) =>
          /\ hpc \in {"group", "done"}
          /\ resources = <<>>
          /\ sleeps = 0
          /\ NoRegistryCalls

\* A scan has returned after an empty first page.
C18_Witness ==
    /\ spc = "returned"
    /\ tagged = <<>>
    /\ pages = <<0>>
    /\ scan_return = Returned(<<>>)

KindOf(a) == <<a[6][1]>>

\* C20: an identifier with at least 6 fields is classified as a non-empty
\* type; and for every entry of the static table, an identifier of the
\* entry's service whose resource kind is the entry's kind is classified as
\* exactly the entry's canonical name.
C20_LongIdentifierIsTyped ==
    (cpc = "returned" /\ Len(classify_arn) >= 6) =>
        /\ Truthy(classified)
        /\ Len(classified) = 3
        /\ \A m \in Mapping :
              (classify_arn[3] = m[1] /\ KindOf(classify_arn) = m[2])
                  => classified = m[3]

\* A load balancer 'loadbalancer/name' has been classified by the table,
\* with further fields following the resource part.
C20_Witness ==
    /\ cpc = "returned"
    /\ Len(classify_arn) = MaxFields
    /\ classify_arn[3] = <<"elasticloadbalancing">>
    /\ classify_arn[6] = <<"loadbalancer", "name">>
    /\ classified = <<"AWS", "ElasticLoadBalancingV2", "LoadBalancer">>

(***************************************************************************)
(* Properties of the returned inventory, checked under SpecScan.           *)
(***************************************************************************)
InventoryReturned == spc = "returned" /\ listing_error = NoError

\* C21 (as claimed): a resource whose identifier cannot be classified is
\* not in the returned inventory; every record of the inventory has a
\* classified type that is not None.
C21_UnclassifiedDropped ==
    InventoryReturned =>
        \A n \in DOMAIN scan_return.value :
            ExtractResourceTypeFromArn(scan_return.value[n].ResourceARN) # None

\* C22 (as claimed): every record of a returned inventory has a
\* Configuration entry, a value or None; none was left without the key.
C22_EveryRecordHasConfiguration ==
    InventoryReturned =>
        \A n \in DOMAIN scan_return.value :
            scan_return.value[n].Configuration # Unset

\* The resources for which a step issued select_resource_config calls.
QueriedInStep ==
    {r \in DOMAIN query_log \cap DOMAIN query_log' : query_log'[r] # query_log[r]}

\* C28: within one scan no call to the configuration registry is made
\* before the listing has delivered its last page; and the calls follow one
\* another: a step of the scan issues either one batch call or the query
\* (with its one retry after the sleep) of one resource, never both and
\* never calls for two resources.
C28_ScanIsSequential ==
    /\ [](( spc # "idle" /\ ~NoRegistryCalls ) =>
            /\ spc \in {"hydrate", "returned"}
            /\ pagination_token = Len(tagged)
            /\ Arns(resources) = Arns(tagged))
    /\ [][ /\ batch_calls' - batch_calls \in {0, 1}
           /\ Cardinality(QueriedInStep) <= 1
           /\ batch_calls' # batch_calls => QueriedInStep = {}
         ]_vars

\* A scan has returned an inventory after at least two batch calls and a
\* fallback query.
C28_Witness ==
    /\ InventoryReturned
    /\ batch_calls >= 2
    /\ \E r \in DOMAIN resources : fetches[r] = 1 /\ Len(query_log[r]) = 2

(***************************************************************************)
(* Properties of the batches, checked under SpecHydrate.                   *)
(***************************************************************************)
\* C29: a delay is made exactly between two successive batches of one type:
\* the batch that follows a batch of the same type was preceded by one more
\* sleep, the first batch of a type by none; and when hydration returns no
\* sleep followed the last batch, so a type processed in k batches cost
\* k - 1 delays.
C29_DelayBetweenBatchesOfOneType ==
    /\ \A n \in 1..Len(slices) :
          IF n = 1 THEN slices[n].sleeps = 0
          ELSE slices[n].sleeps - slices[n - 1].sleeps =
                  (IF slices[n].type = slices[n - 1].type THEN 1 ELSE 0)
    /\ hpc = "sleep" =>
          /\ bi + BatchSize < Len(TypeResources)
          /\ Last(slices).type = CurrentType
          /\ sleeps = Last(slices).sleeps
    /\ hpc = "done" =>
          /\ slices # <<>> => sleeps = Last(slices).sleeps
          /\ sleeps = Len(slices) - Cardinality({slices[n].type : n \in 1..Len(slices)})

\* Hydration has returned after two batches of one type, one delay between.
C29_Witness ==
    /\ hpc = "done"
    /\ Len(slices) = 2
    /\ slices[1].type = slices[2].type
    /\ sleeps = 1

Members(slice) == {slice.members[j] : j \in 1..Len(slice.members)}

\* C30: when hydration returns, the batches it built partition the
\* classified resources: each classified resource is in exactly one batch
\* and an unclassified one in none, a batch holds between 1 and BatchSize
\* distinct resources, and all of them have the batch's type.
C30_BatchesPartitionClassified ==
    /\ \A n \in 1..Len(slices) :
          /\ Len(slices[n].members) \in 1..BatchSize
          /\ Cardinality(Members(slices[n])) = Len(slices[n].members)
          /\ \A r \in Members(slices[n]) :
                ExtractResourceTypeFromArn(Arn(r)) = slices[n].type
    /\ hpc = "done" =>
          \A r \in DOMAIN resources :
             Cardinality({n \in 1..Len(slices) : r \in Members(slices[n])})
               = (IF Truthy(ExtractResourceTypeFromArn(Arn(r))) THEN 1 ELSE 0)

\* Hydration has returned after a type of BatchSize + 1 resources was split
\* into a full batch and a batch of one.
C30_Witness ==
    /\ hpc = "done"
    /\ Len(slices) = 2
    /\ slices[1].type = slices[2].type
    /\ Len(slices[1].members) = BatchSize
    /\ Len(slices[2].members) = 1

(***************************************************************************)
(* Properties of the outcome dictionaries, checked under Spec.             *)
(***************************************************************************)
\* Every outcome produced so far: the values the futures hold and the
\* entries of the results list.
Outcomes ==
    {future[t] : t \in {u \in TargetIds : future[u] # NoFuture}}
    \cup {results[i] : i \in 1..Len(results)}

\* C23: in every outcome exactly one of result and error is set, according
\* to the status: success comes with a result and without an error key,
\* failed with an error string and with result None.
C23_ResultXorError ==
    \A o \in Outcomes :
        /\ o.status \in {"success", "failed"}
        /\ o.status = "success" => (o.result # "None" /\ o.error = "absent")
        /\ o.status = "failed" => (o.error \in ErrorMessages /\ o.result = "None")

\* A run has returned one successful and one failed outcome.
C23_Witness ==
    /\ main_pc = "done"
    /\ \E i, j \in 1..Len(results) :
         /\ results[i].status = "success" /\ results[i].result = "CrewOutput"
         /\ results[j].status = "failed" /\ results[j].error \in ErrorMessages


\* ---------------------------------------------------------------------
\* Configuration validation (config.py).  A YAML value is a record with a
\* 'kind' field ("dict", "list" or "str"); a dictionary carries the keys
\* it has as further fields, so a missing key is a missing field.
\* ---------------------------------------------------------------------
MaxConfigTargets == 2
MaxTags == 2

IsDict(value) == value.kind = "dict"

IsList(value) == value.kind = "list"

Has(dict, key) == key \in DOMAIN dict

NotADict == [kind |-> "str"]

GoodTag == [kind |-> "dict", Key |-> "env", Value |-> "prod"]

TagNoValue == [kind |-> "dict", Key |-> "env"]

TagValues == {GoodTag, TagNoValue}

ListOf(items) == [kind |-> "list", items |-> items]

TagLists == {ListOf(items) : items \in UNION {[1..n -> TagValues] : n \in 0..MaxTags}}

TagsValues == TagLists \cup {NotADict}

Names == {"", "prod"}

TargetValues ==
    {NotADict}
        \cup {[kind |-> "dict"]}
        \cup {[kind |-> "dict", name |-> n] : n \in Names}
        \cup {[kind |-> "dict", tags |-> tg] : tg \in TagsValues}
        \cup {[kind |-> "dict", name |-> n, tags |-> tg] : n \in Names, tg \in TagsValues}

\* The loop over a target's tags: every tag is a dictionary with 'Key' and 'Value'.
TagsWellFormed(tags) ==
    \A i \in DOMAIN tags.items :
        /\ IsDict(tags.items[i])
        /\ Has(tags.items[i], "Key")
        /\ Has(tags.items[i], "Value")

ValidateTarget(target) ==
    /\ IsDict(target)
    /\ Has(target, "name")
    /\ Has(target, "tags")
    /\ IsList(target.tags)
    /\ TagsWellFormed(target.tags)

ValidateConfig(config) ==
    /\ config # <<>>
    /\ \A idx \in DOMAIN config :
        /\ IsDict(config[idx])
        /\ Has(config[idx], "name")
        /\ Has(config[idx], "tags")
        /\ IsList(config[idx].tags)
        /\ TagsWellFormed(config[idx].tags)

\* The '--tags' strings of the command line and what split('=', 1) makes of them.
TagStrings == {"env=prod", "env"}

HasEquals(tag_str) == tag_str = "env=prod"

ParseTag(tag_str) == GoodTag

Verdict(ok) == IF ok THEN "accepted" ELSE "rejected"

InitValidate ==
    /\ OrchIdle
    /\ HydrateIdle
    /\ ListIdle
    /\ ClassifyIdle
    /\ validated = "pending"
    /\ MainIdle
    /\ RescanIdle
    /\ RunIdle
    /\ \/ /\ vpc = "config"
          /\ \E n \in 0..MaxConfigTargets : config_targets \in [1..n -> TargetValues]
       \/ /\ vpc = "cli"
          /\ config_targets = <<>>

\* load_config: the file's targets are kept only if validate_config accepts them.
LoadConfig ==
    /\ vpc = "config"
    /\ validated' = Verdict(ValidateConfig(config_targets))
    /\ vpc' = "loaded"
    /\ UNCHANGED <<config_targets, orchVars, hydVars, listVars, classVars, mainVars, rescanVars, runVars, saveVars>>

\* create_target_from_cli: a tag string without '=' gives up before the
\* target is built.
CreateTargetFromCliBadTag(name, tags) ==
    /\ vpc = "cli"
    /\ \E i \in DOMAIN tags : ~HasEquals(tags[i])
    /\ validated' = "rejected"
    /\ vpc' = "created"
    /\ UNCHANGED <<config_targets, orchVars, hydVars, listVars, classVars, mainVars, rescanVars, runVars, saveVars>>

CreateTargetFromCli(name, tags) ==
    /\ vpc = "cli"
    /\ \A i \in DOMAIN tags : HasEquals(tags[i])
    /\ LET target == [kind |-> "dict", name |-> name,
                      tags |-> ListOf([i \in DOMAIN tags |-> ParseTag(tags[i])])]
       IN  /\ config_targets' = <<target>>
           /\ validated' = Verdict(ValidateTarget(target))
    /\ vpc' = "created"
    /\ UNCHANGED <<orchVars, hydVars, listVars, classVars, mainVars, rescanVars, runVars, saveVars>>

CliTags == UNION {[1..n -> TagStrings] : n \in 1..MaxTags}

NextValidate ==
    \/ LoadConfig
    \/ \E name \in Names, tags \in CliTags : CreateTargetFromCliBadTag(name, tags)
    \/ \E name \in Names, tags \in CliTags : CreateTargetFromCli(name, tags)

SpecValidate == InitValidate /\ [][NextValidate]_vars

\* C24: every target the configuration layer accepts has a non-empty name
\* and a non-empty list of tags.
C24_AcceptedTargetsHaveNameAndTags ==
    validated = "accepted" =>
        \A idx \in DOMAIN config_targets :
            /\ config_targets[idx].name # ""
            /\ config_targets[idx].tags.items # <<>>


\* ---------------------------------------------------------------------
\* The command-line entry point (cli.py, main): dispatch of the validated
\* targets, a KeyboardInterrupt in the calling thread, and the exit code.
\* ---------------------------------------------------------------------
InitMain ==
    /\ \E n \in 0..MaxTargets :
         \E region \in [1..n -> Regions] :
           targets = [t \in 1..n |-> [name |-> t, region |-> region[t]]]
    /\ max_workers \in 1..MaxWorkersArg
    /\ main_pc = "main"
    /\ submitted = 0
    /\ pc = [t \in TargetIds |-> "queued"]
    /\ DEFAULT_SESSION = NoSession
    /\ tagging_client = [t \in TargetIds |-> NoClient]
    /\ config_client = [t \in TargetIds |-> NoClient]
    /\ scan_result = [t \in TargetIds |-> "none"]
    /\ raised = [t \in TargetIds |-> NoError]
    /\ future = [t \in TargetIds |-> NoFuture]
    /\ results = <<>>
    /\ file_written = [t \in TargetIds |-> "not-attempted"]
    /\ HydrateIdle
    /\ ListIdle
    /\ ClassifyIdle
    /\ ValidateIdle
    /\ MainIdle
    /\ RescanIdle
    /\ RunIdle

\* A faulty variant of MainDispatch: one target goes through the pool too.
MainDispatchAlwaysPool ==
    /\ main_pc = "main"
    /\ targets # <<>>
    /\ executor' = "created"
    /\ main_pc' = "submit"
    /\ UNCHANGED <<targets, max_workers, submitted, pc, DEFAULT_SESSION, tagging_client,
                   config_client, scan_result, raised, future, results>>
    /\ UNCHANGED <<interrupted, exit_code>>
    /\ UNCHANGED <<hydVars, listVars, classVars, cfgVars, rescanVars, runVars, saveVars>>

\* "if len(targets) == 1": process_target is entered by the calling thread
\* itself; otherwise process_targets_parallel builds the executor.
MainDispatch ==
    /\ main_pc = "main"
    /\ targets # <<>>
    /\ IF Len(targets) = 1
       THEN /\ pc' = [pc EXCEPT ![1] = "started"]
            /\ main_pc' = "direct"
            /\ UNCHANGED executor
       ELSE /\ executor' = "created"
            /\ main_pc' = "submit"
            /\ UNCHANGED pc
    /\ UNCHANGED <<targets, max_workers, submitted, DEFAULT_SESSION, tagging_client,
                   config_client, scan_result, raised, future, results>>
    /\ UNCHANGED <<interrupted, exit_code>>
    /\ UNCHANGED <<hydVars, listVars, classVars, cfgVars, rescanVars, runVars, saveVars>>

\* results = [process_target(targets[0], llm, output_dir)]: the direct call returns.
DirectReturn ==
    /\ main_pc = "direct"
    /\ pc[1] = "finished"
    /\ results' = <<future[1]>>
    /\ pc' = [pc EXCEPT ![1] = "collected"]
    /\ main_pc' = "done"
    /\ UNCHANGED <<targets, max_workers, submitted, DEFAULT_SESSION, tagging_client,
                   config_client, scan_result, raised, future>>
    /\ UNCHANGED <<hydVars, listVars, classVars, cfgVars, mainVars, rescanVars, runVars, saveVars>>

\* Loading gave no target: load_config or create_target_from_cli returned
\* None (lines 187-189, 198-200) or the list is empty (lines 205-207).
MainNoTargets ==
    /\ main_pc = "main"
    /\ targets = <<>>
    /\ exit_code' = 1
    /\ main_pc' = "exited"
    /\ UNCHANGED <<executor, interrupted>>
    /\ UNCHANGED <<targets, max_workers, submitted, pc, DEFAULT_SESSION, tagging_client,
                   config_client, scan_result, raised, future, results>>
    /\ UNCHANGED <<hydVars, listVars, classVars, cfgVars, rescanVars, runVars, saveVars>>

\* An Exception before the targets are dispatched (initialize_llm, creating
\* the output directory): "except Exception" returns 1.
MainRaises ==
    /\ main_pc = "main"
    /\ exit_code' = 1
    /\ main_pc' = "exited"
    /\ UNCHANGED <<executor, interrupted>>
    /\ UNCHANGED <<targets, max_workers, submitted, pc, DEFAULT_SESSION, tagging_client,
                   config_client, scan_result, raised, future, results>>
    /\ UNCHANGED <<hydVars, listVars, classVars, cfgVars, rescanVars, runVars, saveVars>>

FailedCount == Cardinality({i \in DOMAIN results : results[i].status = "failed"})

\* A faulty variant of Exit: the failed results are not counted.
ExitAlwaysZero ==
    /\ main_pc = "done"
    /\ exit_code' = 0
    /\ main_pc' = "exited"
    /\ UNCHANGED <<executor, interrupted>>
    /\ UNCHANGED <<targets, max_workers, submitted, pc, DEFAULT_SESSION, tagging_client,
                   config_client, scan_result, raised, future, results>>
    /\ UNCHANGED <<hydVars, listVars, classVars, cfgVars, rescanVars, runVars, saveVars>>

\* print_summary, then the exit code from the number of failed results.
Exit ==
    /\ main_pc = "done"
    /\ exit_code' = IF FailedCount > 0 THEN 1 ELSE 0
    /\ main_pc' = "exited"
    /\ UNCHANGED <<executor, interrupted>>
    /\ UNCHANGED <<targets, max_workers, submitted, pc, DEFAULT_SESSION, tagging_client,
                   config_client, scan_result, raised, future, results>>
    /\ UNCHANGED <<hydVars, listVars, classVars, cfgVars, rescanVars, runVars, saveVars>>

InFlight == {"started", "session", "tagging", "clients", "scanned"}

\* KeyboardInterrupt raised in the calling thread outside the with-block of
\* the executor. It is not an Exception, so process_target's handler does
\* not catch it: a scan the calling thread was running is abandoned, and
\* main's "except KeyboardInterrupt" returns 130.
KeyboardInterruptInCaller ==
    /\ main_pc \in {"main", "direct", "done"}
    /\ interrupted' = TRUE
    /\ pc' = [t \in TargetIds |->
                IF main_pc = "direct" /\ pc[t] \in InFlight THEN "abandoned" ELSE pc[t]]
    /\ tagging_client' = [t \in TargetIds |->
                IF main_pc = "direct" THEN NoClient ELSE tagging_client[t]]
    /\ config_client' = [t \in TargetIds |->
                IF main_pc = "direct" THEN NoClient ELSE config_client[t]]
    /\ exit_code' = 130
    /\ main_pc' = "exited"
    /\ UNCHANGED <<targets, max_workers, submitted, DEFAULT_SESSION,
                   scan_result, raised, future, results, executor>>
    /\ UNCHANGED <<hydVars, listVars, classVars, cfgVars, rescanVars, runVars, saveVars>>

\* KeyboardInterrupt raised in the calling thread inside the with-block
\* (while submitting or while waiting in as_completed): the block is left
\* through executor.__exit__, which is shutdown(wait=True). No further
\* submit is made; the worker threads are not interrupted.
KeyboardInterruptInPool ==
    /\ main_pc \in {"submit", "collect"}
    /\ interrupted' = TRUE
    /\ main_pc' = "shutdown"
    /\ UNCHANGED <<targets, max_workers, submitted, pc, DEFAULT_SESSION, tagging_client,
                   config_client, scan_result, raised, future, results>>
    /\ UNCHANGED <<executor, exit_code>>
    /\ UNCHANGED <<hydVars, listVars, classVars, cfgVars, rescanVars, runVars, saveVars>>

\* shutdown(wait=True) joins the worker threads; a worker leaves its loop
\* only when the work queue holds nothing more for it, so every submitted
\* work item has run by then. main's handler then returns 130.
ShutdownWait ==
    /\ main_pc = "shutdown"
    /\ \A t \in 1..submitted : pc[t] \in {"finished", "collected"}
    /\ exit_code' = 130
    /\ main_pc' = "exited"
    /\ UNCHANGED <<targets, max_workers, submitted, pc, DEFAULT_SESSION, tagging_client,
                   config_client, scan_result, raised, future, results>>
    /\ UNCHANGED <<executor, interrupted>>
    /\ UNCHANGED <<hydVars, listVars, classVars, cfgVars, rescanVars, runVars, saveVars>>

NextMain ==
    \/ MainNoTargets
    \/ MainRaises
    \/ MainDispatch
    \/ Next
    \/ DirectReturn
    \/ Exit
    \/ KeyboardInterruptInCaller
    \/ KeyboardInterruptInPool
    \/ ShutdownWait

SpecMain == InitMain /\ [][NextMain]_vars

\* C26: once the calling thread has been interrupted, no target whose scan
\* had not started is started.
C26_NoStartAfterInterrupt ==
    [][interrupted => \A t \in TargetIds : pc[t] = "queued" => pc'[t] = "queued"]_vars

\* C27: a single target is processed by the calling thread and no executor
\* is built; with two or more targets every target that is processed went
\* through the executor.
C27_SingleTargetBypassesPool ==
    /\ Len(targets) = 1 =>
         /\ executor = NoExecutor
         /\ submitted = 0
         /\ pc[1] \in InFlight => main_pc = "direct"
    /\ Len(targets) >= 2 =>
         \A t \in TargetIds : pc[t] # "queued" => executor = "created" /\ t <= submitted

C27_Witness ==
    /\ Len(targets) = 1
    /\ main_pc = "exited"
    /\ exit_code = 0
    /\ results = <<SuccessOutcome(targets[1].name)>>


\* ---------------------------------------------------------------------
\* _scan_by_tags_globally called a second time against the same backend:
\* the same resources are tagged, and a request the backend has answered
\* before is answered the same way.
\* ---------------------------------------------------------------------
\* The resources tagged in the backend that is scanned twice.
RescanUniverse == <<ArnInstance1, ArnTopic, ArnInstance2>>

InitRescan ==
    /\ OrchIdle
    /\ HydrateIdle
    /\ ClassifyIdle
    /\ ValidateIdle
    /\ MainIdle
    /\ RescanIdle
    /\ RunIdle
    /\ \E chosen \in SUBSET (1..Len(RescanUniverse)) :
         /\ Cardinality(chosen) \in 0..MaxResources
         /\ tagged = ListedFrom(RescanUniverse, chosen)
    /\ pagination_token = 0
    /\ pages = <<>>
    /\ spc = "paginate"
    /\ scan_return = NotReturned
    /\ listing_error = NoError

\* What is kept of the first call: its return value, the identifiers it
\* listed and the backend's answers.
FirstScan ==
    [kind |-> "scan",
     scan_return |-> scan_return,
     arns |-> [r \in DOMAIN resources |-> resources[r].ResourceARN],
     listing_error |-> listing_error,
     pages |-> pages,
     batch_log |-> batch_log,
     query_log |-> query_log]

\* A faulty variant of Rescan: all_resource_mappings is not emptied, the
\* second call extends the list of the first.
RescanKeepsResources ==
    /\ scan_no = 1
    /\ spc = "returned"
    /\ first_scan' = FirstScan
    /\ scan_no' = 2
    /\ resources' = IF listing_error = NoError THEN resources ELSE <<>>
    /\ resources_by_type' = <<>>
    /\ hpc' = "idle"
    /\ gi' = 0
    /\ bi' = 0
    /\ k' = 0
    /\ configs_by_id' = <<>>
    /\ batch_calls' = 0
    /\ batch_outcome' = <<>>
    /\ query_log' = <<>>
    /\ sleeps' = 0
    /\ batch_log' = <<>>
    /\ slices' = <<>>
    /\ fetches' = <<>>
    /\ pagination_token' = 0
    /\ pages' = <<>>
    /\ spc' = "paginate"
    /\ scan_return' = NotReturned
    /\ listing_error' = NoError
    /\ UNCHANGED tagged
    /\ UNCHANGED <<orchVars, classVars, cfgVars, mainVars, runVars, saveVars>>

\* The second call is entered: all_resource_mappings = [], new clients, a
\* new paginator. Nothing of the first call's locals is left.
Rescan ==
    /\ scan_no = 1
    /\ spc = "returned"
    /\ first_scan' = FirstScan
    /\ scan_no' = 2
    /\ resources' = <<>>
    /\ resources_by_type' = <<>>
    /\ hpc' = "idle"
    /\ gi' = 0
    /\ bi' = 0
    /\ k' = 0
    /\ configs_by_id' = <<>>
    /\ batch_calls' = 0
    /\ batch_outcome' = <<>>
    /\ query_log' = <<>>
    /\ sleeps' = 0
    /\ batch_log' = <<>>
    /\ slices' = <<>>
    /\ fetches' = <<>>
    /\ pagination_token' = 0
    /\ pages' = <<>>
    /\ spc' = "paginate"
    /\ scan_return' = NotReturned
    /\ listing_error' = NoError
    /\ UNCHANGED tagged
    /\ UNCHANGED <<orchVars, classVars, cfgVars, mainVars, runVars, saveVars>>

\* The backend of the second call is the backend of the first: a listing
\* that failed fails again at the same page after the same pages, one that
\* succeeded succeeds, a batch request with the type and
\* keys of the first call's request of the same rank gets the same answer,
\* and so does each query for a resource. Only the backend's answers are
\* fixed; which requests the second call makes is left to the code.
SameListingAnswer ==
    IF first_scan.listing_error = NoError
    THEN listing_error' = NoError
    ELSE /\ Len(pages') <= Len(first_scan.pages)
         /\ \A n \in DOMAIN pages' : pages'[n] = first_scan.pages[n]
         /\ spc' = "returned" => listing_error' = first_scan.listing_error

SameBatchAnswers ==
    \A n \in DOMAIN batch_log' \cap DOMAIN first_scan.batch_log :
        (/\ batch_log'[n].type = first_scan.batch_log[n].type
         /\ batch_log'[n].keys = first_scan.batch_log[n].keys)
        => /\ batch_log'[n].outcome = first_scan.batch_log[n].outcome
           /\ batch_log'[n].found = first_scan.batch_log[n].found

SameQueryAnswers ==
    \A r \in DOMAIN query_log' \cap DOMAIN first_scan.query_log :
        resources'[r].ResourceARN = first_scan.arns[r] =>
            \A n \in DOMAIN query_log'[r] \cap DOMAIN first_scan.query_log[r] :
                query_log'[r][n] = first_scan.query_log[r][n]

Replay ==
    scan_no = 2 => SameListingAnswer /\ SameBatchAnswers /\ SameQueryAnswers

NextRescan ==
    \/ NextScan /\ Replay
    \/ Rescan

SpecRescan == InitRescan /\ [][NextRescan]_vars

Elements(list) == {list[n] : n \in DOMAIN list}

RECURSIVE BatchesOfGroups(_)
BatchesOfGroups(groups) ==
    IF groups = <<>> THEN 0
    ELSE CeilDiv(Len(Head(groups).members), BatchSize) + BatchesOfGroups(Tail(groups))

\* C31: hydration returns, having issued at most one batch call per batch
\* (per slice of BatchSize resources of one type) and at most two query
\* calls per resource.
C31_HydrationTerminates ==
    /\ <>(hpc = "done")
    /\ [](/\ batch_calls <= BatchesOfGroups(resources_by_type)
          /\ Len(batch_log) = batch_calls
          /\ \A r \in DOMAIN query_log : Len(query_log[r]) <= 2)

\* Hydration has returned after two batches of one type, each with its
\* batch call, and a resource whose query was throttled and retried.
C31_Witness ==
    /\ hpc = "done"
    /\ Len(resources_by_type) = 1
    /\ BatchesOfGroups(resources_by_type) = 2
    /\ batch_calls = 2
    /\ \E r \in DOMAIN query_log : Len(query_log[r]) = 2


\* ---------------------------------------------------------------------
\* The frame of hydration, checked under SpecScan.
\* ---------------------------------------------------------------------
SameButConfiguration(a, b) ==
    /\ Len(a) = Len(b)
    /\ \A r \in DOMAIN a :
         /\ a[r].ResourceARN = b[r].ResourceARN
         /\ a[r].Tags = b[r].Tags

\* C32: from its call to its return hydration keeps the length and order of
\* the list and every resource's ResourceARN and Tags, so the inventory
\* returned is the listing with nothing but Configuration changed.
C32_HydrationChangesOnlyConfiguration ==
    /\ []((spc \in {"hydrate", "returned"} /\ listing_error = NoError)
            => SameButConfiguration(resources, tagged))
    /\ [][hpc # "idle" => SameButConfiguration(resources', resources)]_vars

\* A scan has returned an inventory of three resources, one holding a batch
\* item and one a queried document.
C32_Witness ==
    /\ InventoryReturned
    /\ Len(scan_return.value) = MaxResources
    /\ SameButConfiguration(scan_return.value, tagged)
    /\ \E r \in DOMAIN resources : resources[r].Configuration.kind = "item"
    /\ \E r \in DOMAIN resources : resources[r].Configuration.kind = "document"


\* ---------------------------------------------------------------------
\* The scanner tool's entry point, _run: the guard on target_config, the
\* call of _scan_by_tags_globally inside the try block, json.dumps, and the
\* handler that turns an exception into an error object.
\* ---------------------------------------------------------------------
NoTargetConfig == [kind |-> "none"]
EmptyTargetConfig == [kind |-> "dict", size |-> 0]
TargetConfig == [kind |-> "dict", size |-> 3]

\* "if not self.target_config": None and the empty dictionary are falsy.
TruthyConfig(config) == config.kind = "dict" /\ config.size > 0

\* json.dumps of an object with the single key "error", and of a list.
ErrorObject(message) == [kind |-> "json-object", error |-> message]
JsonDumps(list) == [kind |-> "json-list", value |-> list]

\* What building the default session or a client may raise.
SetupErrors == {"InvalidRegionError", "UnknownServiceError"}

InitRun ==
    /\ OrchIdle
    /\ HydrateIdle
    /\ ClassifyIdle
    /\ ValidateIdle
    /\ MainIdle
    /\ RescanIdle
    /\ \E chosen \in SUBSET (1..Len(ArnUniverse)) :
         /\ Cardinality(chosen) \in 0..MaxResources
         /\ tagged = Listed(chosen)
    /\ pagination_token = 0
    /\ pages = <<>>
    /\ spc = "idle"
    /\ scan_return = NotReturned
    /\ listing_error = NoError
    /\ target_config \in {NoTargetConfig, EmptyTargetConfig, TargetConfig}
    /\ rpc = "entry"
    /\ run_exception = NoError
    /\ run_return = NotReturned

\* Lines 23-24: no target configuration, the error object is returned at once.
RunNoConfig ==
    /\ rpc = "entry"
    /\ ~TruthyConfig(target_config)
    /\ run_return' = ErrorObject("No target configuration provided to the scanner tool.")
    /\ rpc' = "returned"
    /\ UNCHANGED <<target_config, run_exception>>
    /\ UNCHANGED <<orchVars, hydVars, listVars, classVars, cfgVars, mainVars, rescanVars, saveVars>>

\* Lines 26-35: name, tags and region are read and _scan_by_tags_globally
\* is entered inside the try block.
RunCallScan ==
    /\ rpc = "entry"
    /\ TruthyConfig(target_config)
    /\ rpc' = "scan"
    /\ spc' = "clients"
    /\ UNCHANGED <<target_config, run_exception, run_return>>
    /\ UNCHANGED <<tagged, pagination_token, pages, scan_return, listing_error>>
    /\ UNCHANGED <<orchVars, hydVars, classVars, cfgVars, mainVars, rescanVars, saveVars>>

\* Lines 54-56 of _scan_by_tags_globally succeed: the paginator is next.
ScanSetupOk ==
    /\ spc = "clients"
    /\ spc' = "paginate"
    /\ UNCHANGED <<tagged, pagination_token, pages, scan_return, listing_error>>
    /\ UNCHANGED <<orchVars, hydVars, classVars, cfgVars, mainVars, rescanVars, runVars, saveVars>>

\* A faulty variant of ScanSetupRaises: _run has no handler, the exception
\* leaves it.
ScanSetupRaisesUncaught(e) ==
    /\ rpc = "scan"
    /\ spc = "clients"
    /\ spc' = "raised"
    /\ run_exception' = e
    /\ rpc' = "raised"
    /\ UNCHANGED <<target_config, run_return>>
    /\ UNCHANGED <<tagged, pagination_token, pages, scan_return, listing_error>>
    /\ UNCHANGED <<orchVars, hydVars, classVars, cfgVars, mainVars, rescanVars, saveVars>>

\* Lines 54-56 raise: they are outside the try block of
\* _scan_by_tags_globally, so the exception reaches the handler of _run
\* (lines 44-46), which returns the error object.
ScanSetupRaises(e) ==
    /\ rpc = "scan"
    /\ spc = "clients"
    /\ spc' = "raised"
    /\ run_exception' = e
    /\ run_return' = ErrorObject(<<"Failed to scan AWS environment: ", e>>)
    /\ rpc' = "returned"
    /\ UNCHANGED target_config
    /\ UNCHANGED <<tagged, pagination_token, pages, scan_return, listing_error>>
    /\ UNCHANGED <<orchVars, hydVars, classVars, cfgVars, mainVars, rescanVars, saveVars>>

\* Line 42: the list the scan returned is serialized and returned.
RunDumps ==
    /\ rpc = "scan"
    /\ spc = "returned"
    /\ run_return' = JsonDumps(scan_return.value)
    /\ rpc' = "returned"
    /\ UNCHANGED <<target_config, run_exception>>
    /\ UNCHANGED <<orchVars, hydVars, listVars, classVars, cfgVars, mainVars, rescanVars, saveVars>>

\* Lines 37-40: a configuration item holds a value json.dumps cannot encode
\* and that has no isoformat; the serializer raises TypeError inside the
\* try block and the handler returns the error object.
RunDumpsRaises ==
    /\ rpc = "scan"
    /\ spc = "returned"
    /\ \E r \in DOMAIN scan_return.value :
         /\ "Configuration" \in DOMAIN scan_return.value[r]
         /\ scan_return.value[r].Configuration.kind = "item"
    /\ run_exception' = "TypeError"
    /\ run_return' = ErrorObject(<<"Failed to scan AWS environment: ", "TypeError">>)
    /\ rpc' = "returned"
    /\ UNCHANGED target_config
    /\ UNCHANGED <<orchVars, hydVars, listVars, classVars, cfgVars, mainVars, rescanVars, saveVars>>

NextRun ==
    \/ RunNoConfig
    \/ RunCallScan
    \/ ScanSetupOk
    \/ \E e \in SetupErrors : ScanSetupRaises(e)
    \/ NextScan
    \/ RunDumps
    \/ RunDumpsRaises

SpecRun == InitRun /\ [][NextRun]_vars

\* C33: _run never raises. Without a target configuration it returns the
\* error object and no service call has been made; an exception that
\* reaches it during the scan ends in a returned object with an "error" key.
C33_RunNeverRaises ==
    /\ rpc # "raised"
    /\ (rpc = "returned" /\ ~TruthyConfig(target_config)) =>
         /\ run_return.kind = "json-object"
         /\ "error" \in DOMAIN run_return
         /\ spc = "idle"
         /\ pages = <<>>
         /\ NoRegistryCalls
    /\ run_exception # NoError =>
         /\ rpc = "returned"
         /\ run_return = ErrorObject(<<"Failed to scan AWS environment: ", run_exception>>)

\* _run has returned the error object after the serializer raised on an
\* inventory that hydration had completed.
C33_Witness ==
    /\ rpc = "returned"
    /\ run_exception = "TypeError"
    /\ hpc = "done"
    /\ "error" \in DOMAIN run_return


\* ---------------------------------------------------------------------
\* A failed save of the output file, checked under Spec.
\* ---------------------------------------------------------------------
\* C34: a target whose output file could not be written still has the
\* success outcome, with the crew's result and an output_file name and no
\* error, and that is the outcome collected for it.
C34_SaveFailureKeepsSuccess ==
    \A t \in TargetIds :
        file_written[t] = "failed" =>
            /\ future[t].status = "success"
            /\ future[t].output_file # "absent"
            /\ future[t].error = "absent"
            /\ future[t].result = "CrewOutput"
            /\ raised[t] = NoError
            /\ pc[t] = "collected" =>
                 \E n \in DOMAIN results : results[n] = future[t]

\* All outcomes are collected; one target's file was written, the other's
\* was not, and both are reported as success.
C34_Witness ==
    /\ main_pc = "done"
    /\ \E t, u \in TargetIds :
         /\ file_written[t] = "failed"
         /\ file_written[u] = "written"
    /\ \A n \in DOMAIN results : results[n].status = "success"


\* ---------------------------------------------------------------------
\* The exit code of main, checked under SpecMain.
\* ---------------------------------------------------------------------
AllSucceeded ==
    /\ targets # <<>>
    /\ Len(results) = Len(targets)
    /\ \A n \in DOMAIN results : results[n].status = "success"

\* C35: main returns 130 exactly when it was interrupted; otherwise it
\* returns 0 when there is a target and every target has a success outcome,
\* and 1 when an outcome is failed or there is no target.
C35_ExitCodeReflectsOutcomes ==
    main_pc = "exited" =>
        /\ exit_code \in {0, 1, 130}
        /\ exit_code = 130 <=> interrupted
        /\ exit_code = 0 <=> (~interrupted /\ AllSucceeded)
        /\ (~interrupted /\ (targets = <<>> \/ FailedCount > 0)) => exit_code = 1

\* main has returned 1 after two targets were processed, one with a
\* success outcome and one with a failed outcome.
C35_Witness ==
    /\ main_pc = "exited"
    /\ exit_code = 1
    /\ Len(results) = 2
    /\ FailedCount = 1

====
